---- MODULE Spec2Model ----
(***************************************************************************)
(* The job broker of the Roblox Studio MCP bridge                          *)
(* (src/src/server/roblox_mcp_server.py): the JobQueue, the HTTP handler   *)
(* that the plugin long-polls, and the stdio dispatcher that turns a       *)
(* tools/call into a job and waits for its result.                         *)
(*                                                                         *)
(* Python values are modelled as follows.  A dict is a function from keys  *)
(* (strings) to values, and a missing key is a key outside its DOMAIN.     *)
(* A JSON value is a tagged record (JNull, JStr, JBool, JFloat, JList,     *)
(* JObj, JDict), and None is JNull.  time.time() is the variable now, in   *)
(* seconds.                                                                *)
(***************************************************************************)
EXTENDS Integers, Sequences, FiniteSets, TLC

\* ------------------------------------------------------------------ bounds

\* Lines the stdio loop reads / jobs the harness enqueues.
MaxLines == 2
\* Clock ticks before time stops.
MaxTicks == 3

\* --------------------------------------------------------------- constants

DEFAULT_CLIENT_ID == "studio"
DEFAULT_POLL_TIMEOUT_SEC == 5
DEFAULT_JOB_TIMEOUT_SEC == 30
\* is_connected's default max_age, and the window _get_connection_status uses.
MAX_AGE == 15
STATUS_WINDOW == 15
\* Seconds per clock tick: the resolution of the modelled clock.
TickSec == 5

\* ------------------------------------------------------------ JSON values

\* Python None and JSON null.
JNull == [t |-> "null"]
JStr(s) == [t |-> "str", s |-> s]
JBool(b) == [t |-> "bool", b |-> b]
JList(items) == [t |-> "list", items |-> items]
\* A Python float holding a whole number of seconds.
JFloat(n) == [t |-> "float", n |-> n]
\* A JSON object as a payload: its <<key, value>> pairs in order.
JObj(pairs) == [t |-> "obj", pairs |-> pairs]
\* A JSON object as a value inside a message: a dict.
JDict(dict) == [t |-> "dict", dict |-> dict]

\* bool(v) in Python: None, "", False, [] and {} are falsy.
Truthy(v) ==
    CASE v.t = "null" -> FALSE
      [] v.t = "str" -> v.s # ""
      [] v.t = "bool" -> v.b
      [] v.t = "float" -> v.n # 0
      [] v.t = "list" -> v.items # <<>>
      [] v.t = "obj" -> v.pairs # <<>>
      [] v.t = "dict" -> DOMAIN v.dict # {}

\* The empty dict.
EmptyDict == [k \in {} |-> JNull]

\* d.get(k): the value, or None.
Get(d, k) == IF k \in DOMAIN d THEN d[k] ELSE JNull

\* d.get(k, default)
GetOr(d, k, default) == IF k \in DOMAIN d THEN d[k] ELSE default

\* (a or b) in Python.
PyOr(a, b) == IF Truthy(a) THEN a ELSE b

\* d[k] = v on a copy of d.
Put(d, k, v) == [x \in DOMAIN d \cup {k} |-> IF x = k THEN v ELSE d[x]]

RECURSIVE Spaces(_)
Spaces(n) == IF n <= 0 THEN "" ELSE " " \o Spaces(n - 1)

\* json.dumps(v, ensure_ascii=False, indent=indent), at nesting depth `level`.
\* Strings of the model hold no character that JSON escapes.
RECURSIVE JsonDumpsAt(_, _, _)
RECURSIVE JoinItems(_, _, _, _)
RECURSIVE JoinPairs(_, _, _, _)
JoinItems(items, i, indent, level) ==
    IF i > Len(items) THEN ""
    ELSE Spaces(indent * level) \o JsonDumpsAt(items[i], indent, level)
         \o (IF i < Len(items) THEN ",\n" ELSE "\n")
         \o JoinItems(items, i + 1, indent, level)
JoinPairs(pairs, i, indent, level) ==
    IF i > Len(pairs) THEN ""
    ELSE Spaces(indent * level) \o "\"" \o pairs[i][1] \o "\": "
         \o JsonDumpsAt(pairs[i][2], indent, level)
         \o (IF i < Len(pairs) THEN ",\n" ELSE "\n")
         \o JoinPairs(pairs, i + 1, indent, level)
JsonDumpsAt(v, indent, level) ==
    CASE v.t = "null" -> "null"
      [] v.t = "str" -> "\"" \o v.s \o "\""
      [] v.t = "bool" -> (IF v.b THEN "true" ELSE "false")
      [] v.t = "float" -> ToString(v.n) \o ".0"
      [] v.t = "list" ->
            IF v.items = <<>> THEN "[]"
            ELSE "[\n" \o JoinItems(v.items, 1, indent, level + 1)
                 \o Spaces(indent * level) \o "]"
      [] v.t = "obj" ->
            IF v.pairs = <<>> THEN "{}"
            ELSE "{\n" \o JoinPairs(v.pairs, 1, indent, level + 1)
                 \o Spaces(indent * level) \o "}"

JsonDumps(v, indent) == JsonDumpsAt(v, indent, 0)

\* ---------------------------------------------------------------- state

VARIABLES
    now,              \* time.time(), in seconds
    poll_timeout_sec, \* --poll-timeout
    job_timeout_sec,  \* --job-timeout
    pending,          \* JobQueue._pending: the mailboxes, in insertion order
    results,          \* JobQueue._results: job_id -> result body
    last_seen,        \* JobQueue._last_seen: client_id -> time
    wt,               \* per thread: its place inside wait_for_job / wait_for_result
    next_id,          \* jobs minted so far (uuid4 is modelled as a fresh id)
    d,                \* the stdio thread's frame: _handle_request / _call_tool locals
    nlines,           \* lines read from stdin so far
    stdout,           \* ids of the responses written, in order
    reply,            \* the last response written to stdout
    enq_log,          \* history: <<client_id, job_id>> per enqueue, in order
    deliv_log,        \* history: <<client_id, job_id, jobs enqueued so far>> per
                      \* job popped by a wait_for_job
    marked_at,        \* history: client_id -> time of its latest /ping or /poll
    post_reply,       \* the response to the last POST, or to the last GET that
                      \* GetNow served
    cancelled,        \* history: the ids of the jobs a timed-out _call_tool removed
                      \* (its cancel_job returned True)
    stored            \* history: job_id -> the body last uploaded for it, and
                      \* whether its first upload came after the deadline of the
                      \* _call_tool waiting for it, until a wait_for_result(job_id)
                      \* returns

vars == << now, poll_timeout_sec, job_timeout_sec, pending, results,
                    last_seen, wt, next_id, d, nlines, stdout, reply, enq_log,
                    deliv_log, marked_at, post_reply, cancelled, stored >>

STDIO == "stdio"
Workers == {"w1", "w2"}
Threads == {STDIO} \cup Workers

\* f"job_{uuid.uuid4().hex[:12]}": the n-th id minted.
JobId(n) == "job_" \o ToString(n)

\* ------------------------------------------------------------- JobQueue

NoTimes == [c \in {} |-> 0]
NoResults == [j \in {} |-> EmptyDict]

PendingHas(p, client_id) == \E i \in 1..Len(p) : p[i].client = client_id
PendingIdx(p, client_id) == CHOOSE i \in 1..Len(p) : p[i].client = client_id

\* self._pending.get(client_id), with None read as the empty list: both are falsy.
PendingGet(p, client_id) ==
    IF PendingHas(p, client_id) THEN p[PendingIdx(p, client_id)].queue ELSE <<>>

\* Every job of every mailbox.
PendingJobs(p) ==
    UNION {{p[i].queue[k] : k \in 1..Len(p[i].queue)} : i \in 1..Len(p)}
PendingIds(p) == {job.job_id : job \in PendingJobs(p)}

RemoveAt(q, i) == SubSeq(q, 1, i - 1) \o SubSeq(q, i + 1, Len(q))

\* Mutant: self._last_seen = {client_id: time.time()}, the other entries go.
mark_seen_alone_mutant(ls, client_id, t) ==
    [c \in {client_id} |-> t]

\* self._last_seen[client_id] = time.time()
mark_seen(ls, client_id, t) ==
    [c \in DOMAIN ls \cup {client_id} |-> IF c = client_id THEN t ELSE ls[c]]

\* get_last_seen(client_id) is not None
has_last_seen(ls, client_id) == client_id \in DOMAIN ls

\* Mutant: the age test is <= max_age.
is_connected_strict_mutant(ls, client_id, max_age, t) ==
    client_id \in DOMAIN ls /\ (t - ls[client_id]) <= max_age

\* Mutant: a client never seen counts as connected.
is_connected_unseen_mutant(ls, client_id, max_age, t) ==
    client_id \notin DOMAIN ls \/ (t - ls[client_id]) < max_age

\* if last is None: return False; return (time.time() - last) < max_age
is_connected(ls, client_id, max_age, t) ==
    client_id \in DOMAIN ls /\ (t - ls[client_id]) < max_age

\* self._pending.setdefault(client_id, []).append(job)
enqueue(p, client_id, job) ==
    IF PendingHas(p, client_id)
    THEN [p EXCEPT ![PendingIdx(p, client_id)].queue = Append(@, job)]
    ELSE Append(p, [client |-> client_id, queue |-> <<job>>])

\* Mutant: the newest job is popped (queue.pop() instead of queue.pop(0)).
wait_for_job_lifo_mutant(p, client_id, deadline, t) ==
    LET queue == PendingGet(p, client_id) IN
    IF queue # <<>>
    THEN [out |-> "return", has |-> TRUE, ret |-> queue[Len(queue)],
          pending |-> [p EXCEPT ![PendingIdx(p, client_id)].queue =
                                    SubSeq(@, 1, Len(@) - 1)]]
    ELSE IF deadline - t <= 0
    THEN [out |-> "return", has |-> FALSE, ret |-> JNull, pending |-> p]
    ELSE [out |-> "wait", has |-> FALSE, ret |-> JNull, pending |-> p]

\* Mutant: the deadline is tested before the mailbox.
wait_for_job_deadline_first_mutant(p, client_id, deadline, t) ==
    LET queue == PendingGet(p, client_id) IN
    IF deadline - t <= 0
    THEN [out |-> "return", has |-> FALSE, ret |-> JNull, pending |-> p]
    ELSE IF queue # <<>>
    THEN [out |-> "return", has |-> TRUE, ret |-> Head(queue),
          pending |-> [p EXCEPT ![PendingIdx(p, client_id)].queue = Tail(@)]]
    ELSE [out |-> "wait", has |-> FALSE, ret |-> JNull, pending |-> p]

\* Mutant: the head is read and left in the mailbox (queue[0], no pop).
wait_for_job_peek_mutant(p, client_id, deadline, t) ==
    LET queue == PendingGet(p, client_id) IN
    IF queue # <<>>
    THEN [out |-> "return", has |-> TRUE, ret |-> Head(queue), pending |-> p]
    ELSE IF deadline - t <= 0
    THEN [out |-> "return", has |-> FALSE, ret |-> JNull, pending |-> p]
    ELSE [out |-> "wait", has |-> FALSE, ret |-> JNull, pending |-> p]

\* Mutant: the head of the first mailbox that holds a job is popped, whoever
\* it belongs to.
wait_for_job_any_mailbox_mutant(p, client_id, deadline, t) ==
    LET full == {i \in 1..Len(p) : p[i].queue # <<>>} IN
    IF full # {}
    THEN LET m == CHOOSE i \in full : \A k \in full : i <= k IN
         [out |-> "return", has |-> TRUE, ret |-> Head(p[m].queue),
          pending |-> [p EXCEPT ![m].queue = Tail(@)]]
    ELSE IF deadline - t <= 0
    THEN [out |-> "return", has |-> FALSE, ret |-> JNull, pending |-> p]
    ELSE [out |-> "wait", has |-> FALSE, ret |-> JNull, pending |-> p]

\* One pass of wait_for_job's loop, entered with the lock held: pop the head, or
\* give up at the deadline, or go to sleep on the condition variable.
wait_for_job(p, client_id, deadline, t) ==
    LET queue == PendingGet(p, client_id) IN
    IF queue # <<>>
    THEN [out |-> "return", has |-> TRUE, ret |-> Head(queue),
          pending |-> [p EXCEPT ![PendingIdx(p, client_id)].queue = Tail(@)]]
    ELSE IF deadline - t <= 0
    THEN [out |-> "return", has |-> FALSE, ret |-> JNull, pending |-> p]
    ELSE [out |-> "wait", has |-> FALSE, ret |-> JNull, pending |-> p]

\* self._results[job_id] = result
store_result(r, job_id, result) ==
    [j \in DOMAIN r \cup {job_id} |-> IF j = job_id THEN result ELSE r[j]]

\* Mutant: the first filled slot is taken, whatever its job_id.
wait_for_result_any_slot_mutant(r, job_id, deadline, t) ==
    IF DOMAIN r # {}
    THEN LET j == CHOOSE x \in DOMAIN r : TRUE IN
         [out |-> "return", has |-> TRUE, ret |-> r[j],
          results |-> [x \in DOMAIN r \ {j} |-> r[x]]]
    ELSE IF deadline - t <= 0
    THEN [out |-> "return", has |-> FALSE, ret |-> JNull, results |-> r]
    ELSE [out |-> "wait", has |-> FALSE, ret |-> JNull, results |-> r]

\* Mutant: the result is read and left in its slot (get instead of pop).
wait_for_result_keep_mutant(r, job_id, deadline, t) ==
    IF job_id \in DOMAIN r
    THEN [out |-> "return", has |-> TRUE, ret |-> r[job_id], results |-> r]
    ELSE IF deadline - t <= 0
    THEN [out |-> "return", has |-> FALSE, ret |-> JNull, results |-> r]
    ELSE [out |-> "wait", has |-> FALSE, ret |-> JNull, results |-> r]

\* Mutant: the loop has no deadline (remaining is never tested).
wait_for_result_no_deadline_mutant(r, job_id, deadline, t) ==
    IF job_id \in DOMAIN r
    THEN [out |-> "return", has |-> TRUE, ret |-> r[job_id],
          results |-> [j \in DOMAIN r \ {job_id} |-> r[j]]]
    ELSE [out |-> "wait", has |-> FALSE, ret |-> JNull, results |-> r]

\* One pass of wait_for_result's loop, entered with the lock held.
wait_for_result(r, job_id, deadline, t) ==
    IF job_id \in DOMAIN r
    THEN [out |-> "return", has |-> TRUE, ret |-> r[job_id],
          results |-> [j \in DOMAIN r \ {job_id} |-> r[j]]]
    ELSE IF deadline - t <= 0
    THEN [out |-> "return", has |-> FALSE, ret |-> JNull, results |-> r]
    ELSE [out |-> "wait", has |-> FALSE, ret |-> JNull, results |-> r]

\* The places <<mailbox, index>> of the pending jobs with this id.
CancelHits(p, job_id) ==
    {h \in UNION {{<<i, k>> : k \in 1..Len(p[i].queue)} : i \in 1..Len(p)} :
        p[h[1]].queue[h[2]].job_id = job_id}

\* Mutant: the job is looked for and left where it is.
cancel_job_noop_mutant(p, job_id) ==
    [found |-> CancelHits(p, job_id) # {}, pending |-> p]

\* Mutant: the last hit in iteration order is removed.
cancel_job_last_hit_mutant(p, job_id) ==
    LET hits == CancelHits(p, job_id) IN
    IF hits = {} THEN [found |-> FALSE, pending |-> p]
    ELSE LET h == CHOOSE x \in hits : \A y \in hits :
                      x[1] > y[1] \/ (x[1] = y[1] /\ x[2] >= y[2])
         IN [found |-> TRUE,
             pending |-> [p EXCEPT ![h[1]].queue = RemoveAt(@, h[2])]]

\* cancel_job: the first hit in iteration order is removed.
cancel_job(p, job_id) ==
    LET hits == CancelHits(p, job_id) IN
    IF hits = {} THEN [found |-> FALSE, pending |-> p]
    ELSE LET h == CHOOSE x \in hits : \A y \in hits :
                      x[1] < y[1] \/ (x[1] = y[1] /\ x[2] <= y[2])
         IN [found |-> TRUE,
             pending |-> [p EXCEPT ![h[1]].queue = RemoveAt(@, h[2])]]

\* ----------------------------------------------- threads and the condition

\* A thread outside any wait.
Idle == [st |-> "idle", op |-> "none", key |-> "", deadline |-> 0,
         has |-> FALSE, ret |-> JNull]

\* deadline = time.time() + timeout_sec, then `with self._cv:` is entered.
BeginWait(op, key, timeout_sec) ==
    [st |-> "run", op |-> op, key |-> key, deadline |-> now + timeout_sec,
     has |-> FALSE, ret |-> JNull]

\* self._cv.notify_all(): every thread asleep in cv.wait becomes runnable.
notify_all(w) ==
    [t \in DOMAIN w |-> IF w[t].st = "sleep" THEN [w[t] EXCEPT !.st = "run"] ELSE w[t]]

\* Mutant: the thread sleeps for `remaining` seconds with the lock held
\* (time.sleep inside `with self._cv`).
cv_wait_holding_mutant(remaining) ==
    "hold"

\* self._cv.wait(timeout=remaining): the lock is released and the thread sleeps
\* until it is notified or the timeout has passed.
cv_wait(remaining) ==
    "sleep"

\* A thread can take the lock and run a pass of its loop when it has not slept
\* yet, was notified, or its wait for `remaining` seconds has timed out.
Runnable(w) == w.st = "run" \/ (w.st \in {"sleep", "hold"} /\ now >= w.deadline)

\* `with self._cv:` can be entered: every critical section of the JobQueue is
\* one step, so the lock is taken only by a thread that sleeps while it holds
\* it.
LockFree == \A t \in Threads : wt[t].st # "hold"

\* ------------------------------------------------------------ dispatcher

MSG_NOT_CONNECTED ==
    "Studio is not connected. Make sure the Roblox Studio plugin "
    \o "is installed and 'Start Bridge Polling' has been clicked."
MSG_TIMED_OUT ==
    "Timed out waiting for Studio to respond. "
    \o "Check that the plugin is running and connected."
MSG_STUDIO_ERROR == "Studio error"
STATUS_TOOL == "studio_get_connection_status"

\* Mutant: the payload is dumped with indent=0.
_tool_result_indent0_mutant(payload) ==
    [content |-> << [type |-> "text", text |-> JStr(JsonDumps(payload, 0))] >>]

\* {"content": [{"type": "text", "text": json.dumps(payload, indent=2)}]}
_tool_result(payload) ==
    [content |-> << [type |-> "text", text |-> JStr(JsonDumps(payload, 2))] >>]

\* {"isError": True, "content": [{"type": "text", "text": message}]}
_tool_error(message) ==
    [isError |-> TRUE, content |-> << [type |-> "text", text |-> message] >>]

\* The dict tool_to_job of _build_job.
tool_to_job ==
    [ roblox_list_services |-> "list_services",
      roblox_get_children |-> "get_children",
      roblox_get_descendants |-> "get_descendants",
      roblox_get_instance |-> "get_instance",
      roblox_find_instances |-> "find_instances",
      roblox_create_instance |-> "create_instance",
      roblox_delete_instance |-> "delete_instance",
      roblox_clone_instance |-> "clone_instance",
      roblox_reparent_instance |-> "reparent_instance",
      roblox_set_name |-> "set_name",
      roblox_select_instance |-> "select_instance",
      roblox_get_tree |-> "get_tree",
      roblox_get_attributes |-> "get_attributes",
      roblox_set_attributes |-> "set_attributes",
      roblox_get_properties |-> "get_properties",
      roblox_set_properties |-> "set_properties",
      roblox_get_tags |-> "get_tags",
      roblox_add_tag |-> "add_tag",
      roblox_remove_tag |-> "remove_tag",
      roblox_read_script |-> "read_script",
      roblox_write_script |-> "write_script",
      roblox_patch_script |-> "patch_script",
      roblox_get_script_lines |-> "get_script_lines",
      roblox_search_script |-> "search_script",
      roblox_get_script_functions |-> "get_script_functions",
      roblox_search_across_scripts |-> "search_across_scripts",
      roblox_get_selection |-> "get_selection",
      roblox_open_script |-> "open_script",
      roblox_get_open_scripts |-> "get_open_scripts",
      roblox_close_script |-> "close_script",
      roblox_undo |-> "undo",
      roblox_redo |-> "redo",
      roblox_set_waypoint |-> "set_waypoint",
      roblox_get_all_properties |-> "get_all_properties",
      roblox_run_code |-> "run_code",
      roblox_insert_model |-> "insert_model",
      roblox_get_console_output |-> "get_console_output",
      roblox_start_stop_play |-> "start_stop_play",
      roblox_run_script_in_play_mode |-> "run_script_in_play_mode",
      roblox_get_studio_mode |-> "get_studio_mode",
      roblox_terrain_fill_block |-> "terrain_fill_block",
      roblox_terrain_fill_ball |-> "terrain_fill_ball",
      roblox_terrain_fill_cylinder |-> "terrain_fill_cylinder",
      roblox_terrain_replace_material |-> "terrain_replace_material",
      roblox_terrain_read_voxels |-> "terrain_read_voxels",
      roblox_terrain_clear_region |-> "terrain_clear_region",
      roblox_bulk_create_instances |-> "bulk_create_instances",
      roblox_bulk_set_properties |-> "bulk_set_properties",
      roblox_bulk_delete_instances |-> "bulk_delete_instances",
      roblox_find_and_replace_in_scripts |-> "find_and_replace_in_scripts",
      roblox_get_place_info |-> "get_place_info",
      roblox_set_lighting |-> "set_lighting",
      roblox_get_workspace_info |-> "get_workspace_info",
      roblox_get_team_list |-> "get_team_list",
      roblox_get_lighting_effects |-> "get_lighting_effects" ]
\* The names of the descriptors _build_tools returns, in order.
_build_tools ==
    << "studio_get_connection_status",
       "roblox_list_services",
       "roblox_get_children",
       "roblox_get_descendants",
       "roblox_get_instance",
       "roblox_find_instances",
       "roblox_get_tree",
       "roblox_create_instance",
       "roblox_delete_instance",
       "roblox_clone_instance",
       "roblox_reparent_instance",
       "roblox_set_name",
       "roblox_select_instance",
       "roblox_get_selection",
       "roblox_get_properties",
       "roblox_set_properties",
       "roblox_get_attributes",
       "roblox_set_attributes",
       "roblox_get_tags",
       "roblox_add_tag",
       "roblox_remove_tag",
       "roblox_read_script",
       "roblox_write_script",
       "roblox_patch_script",
       "roblox_get_script_lines",
       "roblox_search_script",
       "roblox_get_script_functions",
       "roblox_search_across_scripts",
       "roblox_run_code",
       "roblox_insert_model",
       "roblox_get_console_output",
       "roblox_start_stop_play",
       "roblox_get_studio_mode",
       "roblox_run_script_in_play_mode",
       "roblox_open_script",
       "roblox_get_open_scripts",
       "roblox_close_script",
       "roblox_undo",
       "roblox_redo",
       "roblox_set_waypoint",
       "roblox_get_all_properties",
       "roblox_terrain_fill_block",
       "roblox_terrain_fill_ball",
       "roblox_terrain_fill_cylinder",
       "roblox_terrain_replace_material",
       "roblox_terrain_read_voxels",
       "roblox_terrain_clear_region",
       "roblox_bulk_create_instances",
       "roblox_bulk_set_properties",
       "roblox_bulk_delete_instances",
       "roblox_find_and_replace_in_scripts",
       "roblox_get_place_info",
       "roblox_set_lighting",
       "roblox_get_workspace_info",
       "roblox_get_team_list",
       "roblox_get_lighting_effects" >>

CODE_JOB_TYPES == {"run_code", "run_script_in_play_mode"}

\* Mutant: the code alias is applied to jobs of every type.
job_args_of_every_type_mutant(job_type, arguments) ==
    IF ~Truthy(Get(arguments, "code"))
    THEN Put(arguments, "code",
             PyOr(Get(arguments, "script"), Get(arguments, "source")))
    ELSE arguments

\* job_args = dict(arguments), then the code alias.
job_args_of(job_type, arguments) ==
    IF job_type \in CODE_JOB_TYPES /\ ~Truthy(Get(arguments, "code"))
    THEN Put(arguments, "code",
             PyOr(Get(arguments, "script"), Get(arguments, "source")))
    ELSE arguments

\* Mutant: a name outside tool_to_job becomes a job of that type.
_build_job_passthrough_mutant(name, arguments, job_id, t) ==
    LET job_type == IF name \in DOMAIN tool_to_job THEN tool_to_job[name] ELSE name
    IN [job_id |-> job_id,
        type |-> job_type,
        args |-> job_args_of(job_type, arguments),
        created_at |-> t]

\* Mutant: the job is built without the call's arguments.
_build_job_no_args_mutant(name, arguments, job_id, t) ==
    IF name \notin DOMAIN tool_to_job THEN JNull
    ELSE [job_id |-> job_id,
          type |-> tool_to_job[name],
          args |-> job_args_of(tool_to_job[name], EmptyDict),
          created_at |-> t]

\* _build_job(name, arguments), with the uuid and the clock passed in.
_build_job(name, arguments, job_id, t) ==
    IF name \notin DOMAIN tool_to_job THEN JNull
    ELSE [job_id |-> job_id,
          type |-> tool_to_job[name],
          args |-> job_args_of(tool_to_job[name], arguments),
          created_at |-> t]

\* arguments.get("client_id") or DEFAULT_CLIENT_ID
client_id_of(arguments) == PyOr(Get(arguments, "client_id"), JStr(DEFAULT_CLIENT_ID))

\* _get_connection_status(job_queue, arguments) at time t.
_get_connection_status(ls, arguments, t) ==
    LET client_id == client_id_of(arguments) IN
    IF ~has_last_seen(ls, client_id.s)
    THEN JObj(<< <<"connected", JBool(FALSE)>>, <<"client_id", client_id>> >>)
    ELSE LET age == t - ls[client_id.s] IN
         JObj(<< <<"connected", JBool(age < STATUS_WINDOW)>>,
                 <<"client_id", client_id>>,
                 <<"last_seen_seconds", JFloat(age)>> >>)

\* Mutant: result.get("error", "Studio error") instead of
\* result.get("error") or "Studio error".
call_tool_finish_get_default_mutant(has, result) ==
    IF ~has THEN [outcome |-> "timeout", envelope |-> _tool_error(JStr(MSG_TIMED_OUT))]
    ELSE IF ~Truthy(GetOr(result, "ok", JBool(FALSE)))
    THEN [outcome |-> "error",
          envelope |-> _tool_error(GetOr(result, "error", JStr(MSG_STUDIO_ERROR)))]
    ELSE [outcome |-> "ok", envelope |-> _tool_result(Get(result, "result"))]

\* What _call_tool returns once wait_for_result has returned (has, result).
call_tool_finish(has, result) ==
    IF ~has THEN [outcome |-> "timeout", envelope |-> _tool_error(JStr(MSG_TIMED_OUT))]
    ELSE IF ~Truthy(GetOr(result, "ok", JBool(FALSE)))
    THEN [outcome |-> "error",
          envelope |-> _tool_error(PyOr(Get(result, "error"), JStr(MSG_STUDIO_ERROR)))]
    ELSE [outcome |-> "ok", envelope |-> _tool_result(Get(result, "result"))]

\* The stdio thread between two lines.
NoFrame ==
    [pc |-> "read", msg_id |-> 0, name |-> "", arguments |-> EmptyDict,
     client_id |-> "", job |-> JNull]

\* {"jsonrpc": "2.0", "id": msg_id, "result": result}
Response(msg_id, result) == [jsonrpc |-> "2.0", id |-> msg_id, result |-> result]
NoReply == [jsonrpc |-> "2.0", id |-> 0, result |-> JNull]

\* The body of a POST request, as do_POST reads it: bytes that are no UTF-8,
\* text that is no JSON, a JSON value that is no object, or a JSON object.
RawNotUtf8 == [kind |-> "not_utf8"]
RawNotJson == [kind |-> "not_json"]
RawJson(value) == [kind |-> "json", value |-> value]
RawObject(payload) == [kind |-> "object", value |-> payload]

\* _json_response(self, status, {"ok": ..., "error": ...}); status 0 stands for
\* no response at all: the handler raised, and socketserver closed the
\* connection.
PostReply(status, error) == [status |-> status, error |-> error]
NoPostReply == PostReply(0, "")
Raised(exception) == PostReply(0, exception)

\* do_POST on a path and a body: the response, and whether store_result is
\* reached.
do_POST(path, body) ==
    IF path # "/result"
    THEN [reply |-> PostReply(404, "not_found"), store |-> FALSE]
    ELSE IF body.kind = "not_utf8"
    THEN [reply |-> Raised("UnicodeDecodeError"), store |-> FALSE]
    ELSE IF body.kind = "not_json"
    THEN [reply |-> PostReply(400, "invalid_json"), store |-> FALSE]
    ELSE IF body.kind = "json"
    THEN [reply |-> Raised("AttributeError"), store |-> FALSE]
    ELSE IF ~Truthy(Get(body.value, "job_id"))
    THEN [reply |-> PostReply(400, "missing_job_id"), store |-> FALSE]
    ELSE IF body.value["job_id"].t \in {"list", "obj"}
    THEN [reply |-> Raised("TypeError"), store |-> FALSE]
    ELSE [reply |-> PostReply(200, ""), store |-> TRUE]

\* Mutant: /health marks the client seen, as /ping does.
do_GET_health_marks_mutant(path) ==
    IF path = "/poll"
    THEN [reply |-> PostReply(200, ""), mark |-> TRUE, wait |-> TRUE]
    ELSE IF path \in {"/ping", "/health"}
    THEN [reply |-> PostReply(200, ""), mark |-> TRUE, wait |-> FALSE]
    ELSE [reply |-> PostReply(404, "not_found"), mark |-> FALSE, wait |-> FALSE]

\* do_GET on a path: the response, whether mark_seen is called, and whether
\* wait_for_job is.
do_GET(path) ==
    IF path = "/poll"
    THEN [reply |-> PostReply(200, ""), mark |-> TRUE, wait |-> TRUE]
    ELSE IF path = "/ping"
    THEN [reply |-> PostReply(200, ""), mark |-> TRUE, wait |-> FALSE]
    ELSE IF path = "/health"
    THEN [reply |-> PostReply(200, ""), mark |-> FALSE, wait |-> FALSE]
    ELSE [reply |-> PostReply(404, "not_found"), mark |-> FALSE, wait |-> FALSE]

\* ----------------------------------------------------------------- inputs

\* The client_id query parameter of /ping and /poll; "" stands for an absent or
\* blank parameter, which parse_qs drops.
QueryIds == {"", "studio"}

\* Mutant: qs.get("client_id", [""])[0], no default.
query_client_id_raw_mutant(q) ==
    q

\* (qs.get("client_id") or [DEFAULT_CLIENT_ID])[0]
query_client_id(q) ==
    IF q = "" THEN DEFAULT_CLIENT_ID ELSE q

\* Payloads a plugin puts in a result.
PAYLOAD_SERVICES ==
    JObj(<< <<"services", JList(<< JStr("Workspace"), JStr("Lighting") >>)>> >>)

\* A dict from a set of <<key, value>> pairs with distinct keys.
Dict(kvs) == [k \in {kv[1] : kv \in kvs} |-> (CHOOSE kv \in kvs : kv[1] = k)[2]]

\* Every dict that gives each key of `choices` one of its values or leaves it out.
\* choices: key -> set of values.
RECURSIVE DictsOver(_)
DictsOver(choices) ==
    IF DOMAIN choices = {} THEN {EmptyDict}
    ELSE LET k == CHOOSE x \in DOMAIN choices : TRUE
             rest == DictsOver([x \in DOMAIN choices \ {k} |-> choices[x]])
         IN rest \cup {Put(r, k, v) : r \in rest, v \in choices[k]}

\* Result bodies the plugin uploads for a job: it ran, or it failed.
ResultOk(job_id) ==
    Dict({<<"job_id", JStr(job_id)>>, <<"ok", JBool(TRUE)>>,
          <<"result", PAYLOAD_SERVICES>>})
ResultFailed(job_id) ==
    Dict({<<"job_id", JStr(job_id)>>, <<"ok", JBool(FALSE)>>,
          <<"error", JStr("boom")>>})
BodiesFor(job_id) == {ResultOk(job_id), ResultFailed(job_id)}

\* A job id no _build_job ever minted.
BOGUS_JOB_ID == "job_bogus"

\* Tool names and arguments of the tools/call requests the agent sends.
CallNames == {STATUS_TOOL, "roblox_list_services", "roblox_nonsense"}
CallArguments == {EmptyDict, Dict({<<"client_id", JStr("other")>>})}

\* --poll-timeout and --job-timeout values the bridge is started with.
PollTimeouts == {DEFAULT_POLL_TIMEOUT_SEC}
JobTimeouts == {10}

\* -------------------------------------------------------------------- Init

Init ==
    /\ now = 0
    /\ poll_timeout_sec \in PollTimeouts
    /\ job_timeout_sec \in JobTimeouts
    /\ pending = <<>>
    /\ results = NoResults
    /\ last_seen = NoTimes
    /\ wt = [t \in Threads |-> Idle]
    /\ next_id = 0
    /\ d = NoFrame
    /\ nlines = 0
    /\ stdout = <<>>
    /\ reply = NoReply
    /\ enq_log = <<>>
    /\ deliv_log = <<>>
    /\ marked_at = NoTimes
    /\ stored = NoResults
    /\ post_reply = NoPostReply
    /\ cancelled = {}

\* ----------------------------------------------------------- the clock

\* time.time() moves on by one tick, at most max_ticks times.
Tick(max_ticks) ==
    /\ now + TickSec <= max_ticks * TickSec
    /\ now' = now + TickSec
    /\ UNCHANGED << poll_timeout_sec, job_timeout_sec, pending, results,
                    last_seen, wt, next_id, d, nlines, stdout, reply, enq_log,
                    deliv_log, marked_at, stored, post_reply, cancelled >>

\* ------------------------------------------------- the two blocking waits

\* A thread inside wait_for_job takes the lock and runs one pass of the loop.
WaitForJobStep(t) ==
    /\ \A u \in Threads \ {t} : wt[u].st # "hold"
    /\ wt[t].op = "wait_for_job"
    /\ Runnable(wt[t])
    /\ LET r == wait_for_job(pending, wt[t].key, wt[t].deadline, now) IN
       /\ pending' = r.pending
       /\ wt' = [wt EXCEPT ![t].st = IF r.out = "return" THEN "done"
                                       ELSE cv_wait(wt[t].deadline - now),
                           ![t].has = r.has,
                           ![t].ret = r.ret]
       /\ deliv_log' = IF r.has
                       THEN Append(deliv_log, <<wt[t].key, r.ret.job_id, Len(enq_log)>>)
                       ELSE deliv_log
    /\ UNCHANGED << now, poll_timeout_sec, job_timeout_sec, results, last_seen,
                    next_id, d, nlines, stdout, reply, enq_log, marked_at,
                    stored, post_reply, cancelled >>

\* A thread inside wait_for_result takes the lock and runs one pass of the loop.
WaitForResultStep(t) ==
    /\ \A u \in Threads \ {t} : wt[u].st # "hold"
    /\ wt[t].op = "wait_for_result"
    /\ Runnable(wt[t])
    /\ LET r == wait_for_result(results, wt[t].key, wt[t].deadline, now) IN
       /\ results' = r.results
       /\ wt' = [wt EXCEPT ![t].st = IF r.out = "return" THEN "done"
                                       ELSE cv_wait(wt[t].deadline - now),
                           ![t].has = r.has,
                           ![t].ret = r.ret]
       /\ stored' = IF r.out = "return"
                    THEN [j \in DOMAIN stored \ {wt[t].key} |-> stored[j]]
                    ELSE stored
    /\ UNCHANGED << now, poll_timeout_sec, job_timeout_sec, pending, last_seen,
                    next_id, d, nlines, stdout, reply, enq_log, deliv_log,
                    marked_at, post_reply, cancelled >>

\* ------------------------------------------------------------ HTTP handler

\* GET /ping?client_id=q
Ping(q) ==
    /\ LockFree
    /\ last_seen' = mark_seen(last_seen, query_client_id(q), now)
    /\ wt' = notify_all(wt)
    /\ marked_at' = [c \in DOMAIN marked_at \cup {query_client_id(q)} |->
                        IF c = query_client_id(q) THEN now ELSE marked_at[c]]
    /\ UNCHANGED << now, poll_timeout_sec, job_timeout_sec, pending, results,
                    next_id, d, nlines, stdout, reply, enq_log, deliv_log,
                    stored, post_reply, cancelled >>

\* Mutant: /poll goes to wait_for_job without mark_seen.
PollBegin_no_mark_mutant(w, q) ==
    /\ LockFree
    /\ wt[w].st = "idle"
    /\ wt' = [wt EXCEPT
                ![w] = BeginWait("wait_for_job", query_client_id(q), poll_timeout_sec)]
    /\ UNCHANGED << now, poll_timeout_sec, job_timeout_sec, pending, results,
                    last_seen, next_id, d, nlines, stdout, reply, enq_log,
                    deliv_log, marked_at, stored, post_reply, cancelled >>

\* GET /poll?client_id=q, up to the first pass of wait_for_job: mark_seen, then
\* the deadline is taken.
PollBegin(w, q) ==
    /\ LockFree
    /\ wt[w].st = "idle"
    /\ last_seen' = mark_seen(last_seen, query_client_id(q), now)
    /\ wt' = [notify_all(wt) EXCEPT
                ![w] = BeginWait("wait_for_job", query_client_id(q), poll_timeout_sec)]
    /\ marked_at' = [c \in DOMAIN marked_at \cup {query_client_id(q)} |->
                        IF c = query_client_id(q) THEN now ELSE marked_at[c]]
    /\ UNCHANGED << now, poll_timeout_sec, job_timeout_sec, pending, results,
                    next_id, d, nlines, stdout, reply, enq_log, deliv_log,
                    stored, post_reply, cancelled >>

\* GET /poll, after wait_for_job has returned wt[w].ret: {"ok": true, "job": job}
\* has been sent, and the worker thread ends.
PollReply(w) ==
    /\ wt[w].op = "wait_for_job"
    /\ wt[w].st = "done"
    /\ wt' = [wt EXCEPT ![w] = Idle]
    /\ UNCHANGED << now, poll_timeout_sec, job_timeout_sec, pending, results,
                    last_seen, next_id, d, nlines, stdout, reply, enq_log,
                    deliv_log, marked_at, stored, post_reply, cancelled >>

\* POST path, with a body.
Post(path, body) ==
    LET r == do_POST(path, body)
        job_id == body.value["job_id"].s
    IN
    /\ r.store => LockFree
    /\ post_reply' = r.reply
    /\ IF r.store
       THEN /\ results' = store_result(results, job_id, body.value)
            /\ wt' = notify_all(wt)
            /\ stored' = [j \in DOMAIN stored \cup {job_id} |->
                            IF j # job_id THEN stored[j]
                            ELSE [body |-> body.value,
                                  late |-> IF j \in DOMAIN stored THEN stored[j].late
                                           ELSE /\ d.pc = "wait"
                                                /\ d.job.job_id = j
                                                /\ now > wt[STDIO].deadline]]
       ELSE UNCHANGED << results, wt, stored >>
    /\ UNCHANGED << now, poll_timeout_sec, job_timeout_sec, pending, last_seen,
                    next_id, d, nlines, stdout, reply, enq_log, deliv_log,
                    marked_at, cancelled >>

\* POST /result with a JSON object that carries a truthy job_id.
PostResult(payload) ==
    /\ Truthy(Get(payload, "job_id"))
    /\ Post("/result", RawObject(payload))

\* GET path?client_id=q for a path that is answered at once: /ping, /health,
\* or a path the bridge does not have.
GetNow(path, q) ==
    LET r == do_GET(path)
        client_id == query_client_id(q)
    IN
    /\ ~r.wait
    /\ r.mark => LockFree
    /\ last_seen' = IF r.mark THEN mark_seen(last_seen, client_id, now) ELSE last_seen
    /\ wt' = IF r.mark THEN notify_all(wt) ELSE wt
    /\ marked_at' = IF r.mark
                    THEN [c \in DOMAIN marked_at \cup {client_id} |->
                             IF c = client_id THEN now ELSE marked_at[c]]
                    ELSE marked_at
    /\ post_reply' = r.reply
    /\ UNCHANGED << now, poll_timeout_sec, job_timeout_sec, pending, results,
                    next_id, d, nlines, stdout, reply, enq_log, deliv_log,
                    stored, cancelled >>

\* ---------------------------------------------------------- stdio thread

\* Send(msg_id, envelope): _send of the tools/call response.
Send(msg_id, envelope) ==
    /\ stdout' = Append(stdout, msg_id)
    /\ reply' = Response(msg_id, envelope)

\* _call_tool for studio_get_connection_status: answered from _last_seen.
CallToolStatus(msg_id, arguments) ==
    /\ LockFree
    /\ Send(msg_id,
            _tool_result(_get_connection_status(last_seen, arguments, now)))
    /\ d' = NoFrame
    /\ UNCHANGED << now, poll_timeout_sec, job_timeout_sec, pending, results,
                    last_seen, wt, next_id, enq_log, deliv_log, marked_at, stored, post_reply, cancelled >>

\* Mutant: the tool is looked up before the liveness gate.
CallToolQueued_lookup_first_mutant(msg_id, name, arguments) ==
    /\ LockFree
    /\ LET client_id == client_id_of(arguments).s
           job == _build_job(name, arguments, JobId(next_id + 1), now)
       IN
       IF job = JNull
       THEN /\ Send(msg_id, _tool_error(JStr("Unknown tool: " \o name)))
            /\ d' = NoFrame
            /\ UNCHANGED next_id
       ELSE IF ~is_connected(last_seen, client_id, MAX_AGE, now)
       THEN /\ Send(msg_id, _tool_error(JStr(MSG_NOT_CONNECTED)))
            /\ d' = NoFrame
            /\ UNCHANGED next_id
       ELSE /\ d' = [pc |-> "enqueue", msg_id |-> msg_id, name |-> name,
                     arguments |-> arguments, client_id |-> client_id, job |-> job]
            /\ next_id' = next_id + 1
            /\ UNCHANGED << stdout, reply >>
    /\ UNCHANGED << now, poll_timeout_sec, job_timeout_sec, pending, results,
                    last_seen, wt, enq_log, deliv_log, marked_at, stored, post_reply, cancelled >>

\* _call_tool for every other name, up to its first blocking point: the
\* liveness gate is passed or not, the job is built or the tool is unknown.
CallToolQueued(msg_id, name, arguments) ==
    /\ LockFree
    /\ LET client_id == client_id_of(arguments).s
           job == _build_job(name, arguments, JobId(next_id + 1), now)
       IN
       IF ~is_connected(last_seen, client_id, MAX_AGE, now)
       THEN /\ Send(msg_id, _tool_error(JStr(MSG_NOT_CONNECTED)))
            /\ d' = NoFrame
            /\ UNCHANGED next_id
       ELSE IF job = JNull
       THEN /\ Send(msg_id, _tool_error(JStr("Unknown tool: " \o name)))
            /\ d' = NoFrame
            /\ UNCHANGED next_id
       ELSE /\ d' = [pc |-> "enqueue", msg_id |-> msg_id, name |-> name,
                     arguments |-> arguments, client_id |-> client_id, job |-> job]
            /\ next_id' = next_id + 1
            /\ UNCHANGED << stdout, reply >>
    /\ UNCHANGED << now, poll_timeout_sec, job_timeout_sec, pending, results,
                    last_seen, wt, enq_log, deliv_log, marked_at, stored, post_reply, cancelled >>

\* Mutant: studio_get_connection_status takes the path of every other tool.
CallTool_no_shortcut_mutant(name, arguments) ==
    /\ nlines' = nlines + 1
    /\ CallToolQueued(nlines + 1, name, arguments)

\* _handle_request on a tools/call request whose id is the number of the line:
\* params.name and params.arguments go to _call_tool, and its envelope is sent.
CallTool(name, arguments) ==
    /\ nlines' = nlines + 1
    /\ IF name = STATUS_TOOL THEN CallToolStatus(nlines + 1, arguments)
       ELSE CallToolQueued(nlines + 1, name, arguments)

\* Mutant: the line is read and handled while the call before it is still
\* in _call_tool (a handler thread per line).
ReadLine_concurrent_mutant(name, arguments) ==
    /\ nlines < MaxLines
    /\ CallTool(name, arguments)

\* run reads the next line of stdin, a tools/call request.
ReadLine(name, arguments) ==
    /\ d.pc = "read"
    /\ nlines < MaxLines
    /\ CallTool(name, arguments)

\* run handles the line it holds.
HandleLine ==
    /\ d.pc = "line"
    /\ CallTool(d.name, d.arguments)

\* _call_tool: enqueue(client_id, job), then wait_for_result takes its deadline.
Enqueue ==
    /\ LockFree
    /\ d.pc = "enqueue"
    /\ pending' = enqueue(pending, d.client_id, d.job)
    /\ wt' = [notify_all(wt) EXCEPT
                ![STDIO] = BeginWait("wait_for_result", d.job.job_id, job_timeout_sec)]
    /\ enq_log' = Append(enq_log, <<d.client_id, d.job.job_id>>)
    /\ d' = [d EXCEPT !.pc = "wait"]
    /\ UNCHANGED << now, poll_timeout_sec, job_timeout_sec, results, last_seen,
                    next_id, nlines, stdout, reply, deliv_log, marked_at,
                    stored, post_reply, cancelled >>

\* _call_tool after wait_for_result has returned: cancel_job on a timeout, then
\* the envelope is returned and sent.
CallToolFinish ==
    /\ d.pc = "wait"
    /\ wt[STDIO].st = "done"
    /\ wt[STDIO].has \/ LockFree
    /\ LET fin == call_tool_finish(wt[STDIO].has, wt[STDIO].ret) IN
       /\ pending' = IF wt[STDIO].has THEN pending
                     ELSE cancel_job(pending, d.job.job_id).pending
       /\ Send(d.msg_id, fin.envelope)
       /\ d' = NoFrame
       /\ cancelled' = IF ~wt[STDIO].has /\ cancel_job(pending, d.job.job_id).found
                       THEN cancelled \cup {d.job.job_id}
                       ELSE cancelled
    /\ wt' = [wt EXCEPT ![STDIO] = Idle]
    /\ UNCHANGED << now, poll_timeout_sec, job_timeout_sec, results, last_seen,
                    next_id, nlines, enq_log, deliv_log, marked_at, stored,
                    post_reply >>

\* ------------------------------------------- stdio: every kind of line

\* msg.get("id") of a message with no "id", or with a null one: None.
NO_ID == -1

\* A line of stdin after strip(): empty, text that is no JSON, a JSON value that
\* is no object, or a JSON object.  The "id" of an object is kept apart from
\* its other keys: the code hands it on and only tests it against None.
LineBlank == [kind |-> "blank"]
LineNotJson == [kind |-> "not_json"]
LineJson(value) == [kind |-> "json", value |-> value]
LineObject(msg_id, msg) == [kind |-> "object", id |-> msg_id, value |-> msg]

\* sub in s, for two strings.
Contains(s, sub) ==
    \E i \in 1..(Len(s) - Len(sub) + 1) : SubSeq(s, i, i + Len(sub) - 1) = sub

\* Mutant: json.loads is not guarded, its JSONDecodeError leaves run.
run_unguarded_mutant(line) ==
    IF line.kind = "blank" THEN "continue"
    ELSE IF line.kind = "not_json" THEN "JSONDecodeError"
    ELSE IF line.kind = "object"
    THEN IF "method" \in DOMAIN line.value THEN "_handle_request" ELSE "continue"
    ELSE CASE line.value.t = "str" ->
                IF Contains(line.value.s, "method") THEN "AttributeError"
                ELSE "continue"
           [] line.value.t = "list" ->
                IF \E i \in 1..Len(line.value.items) :
                        line.value.items[i] = JStr("method")
                THEN "AttributeError" ELSE "continue"
           [] OTHER -> "TypeError"

\* run on one line, up to `if "method" in msg`: the loop goes on to the next
\* line, or calls _handle_request, or the test raises.
run(line) ==
    IF line.kind \in {"blank", "not_json"} THEN "continue"
    ELSE IF line.kind = "object"
    THEN IF "method" \in DOMAIN line.value THEN "_handle_request" ELSE "continue"
    ELSE CASE line.value.t = "str" ->
                IF Contains(line.value.s, "method") THEN "AttributeError"
                ELSE "continue"
           [] line.value.t = "list" ->
                IF \E i \in 1..Len(line.value.items) :
                        line.value.items[i] = JStr("method")
                THEN "AttributeError" ELSE "continue"
           [] OTHER -> "TypeError"

\* f"{name}"
PyStr(v) ==
    CASE v.t = "null" -> "None"
      [] v.t = "str" -> v.s
      [] v.t = "bool" -> (IF v.b THEN "True" ELSE "False")
      [] v.t = "float" -> ToString(v.n) \o ".0"

\* hash(v) raises TypeError: v cannot be a dict key.
Unhashable(v) == v.t \in {"list", "dict", "obj"}

\* The result of initialize.
InitializeResult ==
    [protocolVersion |-> "2024-11-05",
     serverInfo |-> [name |-> "roblox-mcp-bridge", version |-> "0.6"],
     capabilities |-> [tools |-> EmptyDict]]

\* Mutant: the error is -32600, Invalid Request.
ErrorResponse_invalid_request_mutant(msg_id) ==
    [jsonrpc |-> "2.0", id |-> msg_id,
     error |-> [code |-> -32600, message |-> "Invalid Request"]]

\* {"jsonrpc": "2.0", "id": msg_id, "error": {"code": -32601, ...}}
ErrorResponse(msg_id) ==
    [jsonrpc |-> "2.0", id |-> msg_id,
     error |-> [code |-> -32601, message |-> "Method not found"]]

\* An exception leaves run: main catches KeyboardInterrupt only, so the process
\* ends with the traceback.
Crash(exception) ==
    /\ d' = [NoFrame EXCEPT !.pc = "crashed", !.name = exception]
    /\ UNCHANGED << now, poll_timeout_sec, job_timeout_sec, pending, results,
                    last_seen, wt, next_id, stdout, reply, enq_log, deliv_log,
                    marked_at, stored, post_reply, cancelled >>

\* The line is done with and nothing was written.
Continue ==
    UNCHANGED << now, poll_timeout_sec, job_timeout_sec, pending, results,
                 last_seen, wt, next_id, d, stdout, reply, enq_log, deliv_log,
                 marked_at, stored, post_reply, cancelled >>

\* _send of a response that needs no job.
SendNow(response) ==
    /\ stdout' = Append(stdout, response.id)
    /\ reply' = response
    /\ UNCHANGED << now, poll_timeout_sec, job_timeout_sec, pending, results,
                    last_seen, wt, next_id, d, enq_log, deliv_log, marked_at,
                    stored, post_reply, cancelled >>

\* _call_tool(name, arguments) on the values _handle_request takes out of
\* params, whatever their types.
_call_tool(msg_id, name, arguments) ==
    IF arguments.t # "dict" THEN Crash("AttributeError")
    ELSE IF Unhashable(client_id_of(arguments.dict)) THEN Crash("TypeError")
    ELSE IF name = JStr(STATUS_TOOL) THEN CallToolStatus(msg_id, arguments.dict)
    ELSE IF /\ Unhashable(name)
            /\ is_connected(last_seen, client_id_of(arguments.dict).s, MAX_AGE, now)
    THEN Crash("TypeError")
    ELSE CallToolQueued(msg_id, IF Unhashable(name) THEN "" ELSE PyStr(name),
                        arguments.dict)

\* _handle_request(msg), msg_id being msg.get("id").
_handle_request(msg_id, msg) ==
    LET method == Get(msg, "method")
        params == PyOr(Get(msg, "params"), JDict(EmptyDict))
    IN
    IF method = JStr("initialize") THEN SendNow(Response(msg_id, InitializeResult))
    ELSE IF method = JStr("notifications/initialized") THEN Continue
    ELSE IF method = JStr("tools/list")
    THEN SendNow(Response(msg_id, [tools |-> _build_tools]))
    ELSE IF method = JStr("tools/call")
    THEN IF params.t # "dict" THEN Crash("AttributeError")
         ELSE _call_tool(msg_id, Get(params.dict, "name"),
                         PyOr(Get(params.dict, "arguments"), JDict(EmptyDict)))
    ELSE IF msg_id # NO_ID THEN SendNow(ErrorResponse(msg_id))
    ELSE Continue

\* run reads the next line of stdin, whatever it holds.
ReadAnyLine(line) ==
    /\ d.pc = "read"
    /\ nlines < MaxLines
    /\ nlines' = nlines + 1
    /\ CASE run(line) = "continue" -> Continue
         [] run(line) = "_handle_request" -> _handle_request(line.id, line.value)
         [] OTHER -> Crash(run(line))

\* The process is alive: no exception has left run.
Alive == d.pc # "crashed"

\* ------------------------------------------------------- the bridge, wired

\* Job ids the plugin can name in a result: those it received.
PluginJobIds == {deliv_log[i][2] : i \in 1..Len(deliv_log)}

\* HTTP worker threads that serve /poll in the wired bridge; /ping and /result
\* run on threads of their own and never block.
PollWorkers == {"w1"}

Next ==
    \/ Tick(MaxTicks)
    \/ \E name \in CallNames, arguments \in CallArguments : ReadLine(name, arguments)
    \/ Enqueue
    \/ WaitForResultStep(STDIO)
    \/ CallToolFinish
    \/ \E q \in QueryIds : Ping(q)
    \/ \E w \in PollWorkers, q \in QueryIds : PollBegin(w, q)
    \/ \E w \in PollWorkers : WaitForJobStep(w)
    \/ \E w \in PollWorkers : PollReply(w)
    \/ \E job_id \in PluginJobIds : PostResult(ResultOk(job_id))

Spec == Init /\ [][Next]_vars

\* Time advances, and a thread that can take the lock and go on does so: the
\* stdio thread between its steps, and a poll worker inside wait_for_job, whose
\* cv.wait(timeout=remaining) ends at the deadline at the latest.  Nothing is
\* assumed of the agent or of the plugin.
Fairness ==
    /\ WF_vars(Tick(MaxTicks))
    /\ WF_vars(Enqueue)
    /\ WF_vars(WaitForResultStep(STDIO))
    /\ WF_vars(CallToolFinish)
    /\ \A w \in PollWorkers : WF_vars(WaitForJobStep(w)) /\ WF_vars(PollReply(w))

\* The bridge with one client: the agent calls roblox_list_services, and the
\* plugin pings, polls and answers as "studio", or does not.
NextLive ==
    \/ Tick(MaxTicks)
    \/ ReadLine("roblox_list_services", EmptyDict)
    \/ Enqueue
    \/ WaitForResultStep(STDIO)
    \/ CallToolFinish
    \/ Ping("")
    \/ \E w \in PollWorkers : PollBegin(w, "")
    \/ \E w \in PollWorkers : WaitForJobStep(w)
    \/ \E w \in PollWorkers : PollReply(w)
    \/ \E job_id \in PluginJobIds : PostResult(ResultOk(job_id))

SpecLive == Init /\ [][NextLive]_vars /\ Fairness

\* One plugin and one agent, neither of which ever names a client: /ping and
\* /poll come without client_id, and so do the calls of roblox_list_services and
\* of studio_get_connection_status.
NextDefault ==
    \/ Tick(MaxTicks)
    \/ \E name \in {STATUS_TOOL, "roblox_list_services"} : ReadLine(name, EmptyDict)
    \/ Enqueue
    \/ WaitForResultStep(STDIO)
    \/ CallToolFinish
    \/ Ping("")
    \/ \E w \in PollWorkers : PollBegin(w, "")
    \/ \E w \in PollWorkers : WaitForJobStep(w)
    \/ \E w \in PollWorkers : PollReply(w)
    \/ \E job_id \in PluginJobIds : PostResult(ResultOk(job_id))

SpecDefault == Init /\ [][NextDefault]_vars

\* One plugin that polls and answers every job it is handed with a result or
\* with an error, and an agent that calls roblox_list_services.
NextAnswered ==
    \/ Tick(MaxTicks)
    \/ ReadLine("roblox_list_services", EmptyDict)
    \/ Enqueue
    \/ WaitForResultStep(STDIO)
    \/ CallToolFinish
    \/ \E w \in PollWorkers : PollBegin(w, "")
    \/ \E w \in PollWorkers : WaitForJobStep(w)
    \/ \E w \in PollWorkers : PollReply(w)
    \/ \E job_id \in PluginJobIds :
            \E payload \in BodiesFor(job_id) : PostResult(payload)

SpecAnswered == Init /\ [][NextAnswered]_vars

\* An agent that only ever calls a tool the bridge does not have, for either
\* client, while "studio" pings and polls or stays away.
NextUnknown ==
    \/ Tick(MaxTicks)
    \/ \E arguments \in CallArguments : ReadLine("roblox_nonsense", arguments)
    \/ \E q \in QueryIds : Ping(q)
    \/ \E w \in PollWorkers, q \in QueryIds : PollBegin(w, q)
    \/ \E w \in PollWorkers : WaitForJobStep(w)
    \/ \E w \in PollWorkers : PollReply(w)

SpecUnknown == Init /\ [][NextUnknown]_vars

\* Paths of the GET requests that are answered at once.
GetPaths == {"/ping", "/health", "/other"}

\* One plugin that pings, asks for /health and for a path the bridge does not
\* have, polls, and posts a result nobody waits for or posts to another path,
\* and an agent that calls roblox_list_services.
NextHttp ==
    \/ Tick(MaxTicks)
    \/ ReadLine("roblox_list_services", EmptyDict)
    \/ Enqueue
    \/ WaitForResultStep(STDIO)
    \/ CallToolFinish
    \/ \E path \in GetPaths : GetNow(path, "")
    \/ \E w \in PollWorkers : PollBegin(w, "")
    \/ \E w \in PollWorkers : WaitForJobStep(w)
    \/ \E w \in PollWorkers : PollReply(w)
    \/ \E path \in {"/result", "/other"} :
            Post(path, RawObject(ResultOk(BOGUS_JOB_ID)))

SpecHttp == Init /\ [][NextHttp]_vars

\* Time passes only while the /poll of the plugin is asleep before its
\* deadline: cv.wait(timeout=remaining) comes back when the deadline does, the
\* reply is sent, and the plugin polls again at once.
TickWhilePolling ==
    /\ \A w \in PollWorkers :
          wt[w].op = "wait_for_job" /\ wt[w].st = "sleep" /\ now < wt[w].deadline
    /\ Tick(MaxTicks)

\* One plugin that polls again as soon as each /poll returns and answers the
\* jobs it is handed, and an agent that asks for the status and calls
\* roblox_list_services.
NextRepoll ==
    \/ TickWhilePolling
    \/ \E name \in {STATUS_TOOL, "roblox_list_services"} : ReadLine(name, EmptyDict)
    \/ Enqueue
    \/ WaitForResultStep(STDIO)
    \/ CallToolFinish
    \/ \E w \in PollWorkers : PollBegin(w, "")
    \/ \E w \in PollWorkers : WaitForJobStep(w)
    \/ \E w \in PollWorkers : PollReply(w)
    \/ \E job_id \in PluginJobIds : PostResult(ResultOk(job_id))

SpecRepoll == Init /\ [][NextRepoll]_vars

\* The bridge started with --poll-timeout at twice its default: a /poll stays
\* open across a tick of the clock.
InitWake ==
    /\ now = 0
    /\ poll_timeout_sec = 2 * DEFAULT_POLL_TIMEOUT_SEC
    /\ job_timeout_sec \in JobTimeouts
    /\ pending = <<>>
    /\ results = NoResults
    /\ last_seen = NoTimes
    /\ wt = [t \in Threads |-> Idle]
    /\ next_id = 0
    /\ d = NoFrame
    /\ nlines = 0
    /\ stdout = <<>>
    /\ reply = NoReply
    /\ enq_log = <<>>
    /\ deliv_log = <<>>
    /\ marked_at = NoTimes
    /\ stored = NoResults
    /\ post_reply = NoPostReply
    /\ cancelled = {}

SpecWake == InitWake /\ [][Next]_vars

\* --------------------------------------- one call, over a wide input domain

WideNames == {"roblox_list_services", "roblox_run_code", "roblox_run_script_in_play_mode"}
WideArguments ==
    DictsOver([code |-> {JStr(""), JStr("print(0)")},
               script |-> {JStr(""), JStr("print(1)")},
               source |-> {JStr("print(2)")}])
    \cup {Dict({<<"script", JStr("print(1)")>>, <<"client_id", JStr("studio")>>})}
WideBodiesFor(job_id) ==
    { Dict({<<"job_id", JStr(job_id)>>, <<"ok", JBool(TRUE)>>,
            <<"result", PAYLOAD_SERVICES>>}),
      Dict({<<"job_id", JStr(job_id)>>, <<"ok", JBool(TRUE)>>}),
      Dict({<<"job_id", JStr(job_id)>>, <<"ok", JBool(TRUE)>>,
            <<"result", JStr("done")>>, <<"error", JStr("boom")>>}),
      Dict({<<"job_id", JStr(job_id)>>, <<"ok", JBool(FALSE)>>,
            <<"error", JStr("boom")>>}),
      Dict({<<"job_id", JStr(job_id)>>, <<"ok", JBool(FALSE)>>,
            <<"error", JStr("")>>}),
      Dict({<<"job_id", JStr(job_id)>>, <<"ok", JBool(FALSE)>>}),
      Dict({<<"job_id", JStr(job_id)>>, <<"error", JStr("boom")>>}),
      Dict({<<"job_id", JStr(job_id)>>, <<"ok", JBool(FALSE)>>,
            <<"error", JStr("boom")>>, <<"result", PAYLOAD_SERVICES>>}) }

\* stdin holds one tools/call request, which run has just read.
InitCall ==
    /\ now = 0
    /\ poll_timeout_sec = DEFAULT_POLL_TIMEOUT_SEC
    /\ job_timeout_sec = DEFAULT_JOB_TIMEOUT_SEC
    /\ pending = <<>>
    /\ results = NoResults
    /\ last_seen = NoTimes
    /\ wt = [t \in Threads |-> Idle]
    /\ next_id = 0
    /\ \E name \in WideNames, arguments \in WideArguments :
          d = [NoFrame EXCEPT !.pc = "line", !.name = name, !.arguments = arguments]
    /\ nlines = 0
    /\ stdout = <<>>
    /\ reply = NoReply
    /\ enq_log = <<>>
    /\ deliv_log = <<>>
    /\ marked_at = NoTimes
    /\ stored = NoResults
    /\ post_reply = NoPostReply
    /\ cancelled = {}

\* The bridge serving that one call: the plugin pings, polls and answers at once,
\* so the clock stands still.
NextCall ==
    \/ HandleLine
    \/ Enqueue
    \/ WaitForResultStep(STDIO)
    \/ CallToolFinish
    \/ Ping("")
    \/ PollBegin("w1", "")
    \/ WaitForJobStep("w1")
    \/ PollReply("w1")
    \/ \E job_id \in PluginJobIds :
            \E payload \in WideBodiesFor(job_id) : PostResult(payload)
    \/ PostResult(Dict({<<"job_id", JStr(BOGUS_JOB_ID)>>, <<"ok", JBool(TRUE)>>}))

SpecCall == InitCall /\ [][NextCall]_vars

\* --------------------------------- the JobQueue under arbitrary callers

\* Jobs the callers enqueue.
MaxJobs == 2
\* Clock ticks while the callers run.
MaxQueueTicks == 1

QueueClients == {"studio", "other"}
QueueTimeouts == {0, DEFAULT_POLL_TIMEOUT_SEC}
QueueJobIds == {JobId(n) : n \in 1..MaxJobs}

\* A caller enqueues a freshly built job.
QEnqueue(client_id) ==
    /\ LockFree
    /\ next_id < MaxJobs
    /\ next_id' = next_id + 1
    /\ pending' = enqueue(pending, client_id,
                          _build_job("roblox_list_services", EmptyDict,
                                     JobId(next_id + 1), now))
    /\ wt' = notify_all(wt)
    /\ enq_log' = Append(enq_log, <<client_id, JobId(next_id + 1)>>)
    /\ UNCHANGED << now, poll_timeout_sec, job_timeout_sec, results, last_seen,
                    d, nlines, stdout, reply, deliv_log, marked_at, stored, post_reply, cancelled >>

\* A thread calls wait_for_job(client_id, timeout_sec).
QWaitForJob(t, client_id, timeout_sec) ==
    /\ wt[t].st = "idle"
    /\ wt' = [wt EXCEPT ![t] = BeginWait("wait_for_job", client_id, timeout_sec)]
    /\ UNCHANGED << now, poll_timeout_sec, job_timeout_sec, pending, results,
                    last_seen, next_id, d, nlines, stdout, reply, enq_log,
                    deliv_log, marked_at, stored, post_reply, cancelled >>

\* A thread calls wait_for_result(job_id, timeout_sec).
QWaitForResult(t, job_id, timeout_sec) ==
    /\ wt[t].st = "idle"
    /\ wt' = [wt EXCEPT ![t] = BeginWait("wait_for_result", job_id, timeout_sec)]
    /\ UNCHANGED << now, poll_timeout_sec, job_timeout_sec, pending, results,
                    last_seen, next_id, d, nlines, stdout, reply, enq_log,
                    deliv_log, marked_at, stored, post_reply, cancelled >>

\* The caller takes what wait_for_result returned.
QReturn(t) ==
    /\ wt[t].op = "wait_for_result"
    /\ wt[t].st = "done"
    /\ wt' = [wt EXCEPT ![t] = Idle]
    /\ UNCHANGED << now, poll_timeout_sec, job_timeout_sec, pending, results,
                    last_seen, next_id, d, nlines, stdout, reply, enq_log,
                    deliv_log, marked_at, stored, post_reply, cancelled >>

\* A caller calls cancel_job(job_id).
QCancel(job_id) ==
    /\ LockFree
    /\ pending' = cancel_job(pending, job_id).pending
    /\ UNCHANGED << now, poll_timeout_sec, job_timeout_sec, results, last_seen,
                    wt, next_id, d, nlines, stdout, reply, enq_log, deliv_log,
                    marked_at, stored, post_reply, cancelled >>

\* The mailboxes: enqueue, wait_for_job (a /poll), cancel_job and the /result of
\* the first job delivered, in any interleaving.
NextMailbox ==
    \/ Tick(MaxQueueTicks)
    \/ \E c \in QueueClients : QEnqueue(c)
    \/ \E t \in Workers, c \in QueueClients : QWaitForJob(t, c, poll_timeout_sec)
    \/ \E t \in Workers : WaitForJobStep(t)
    \/ \E t \in Workers : PollReply(t)
    \/ \E job_id \in QueueJobIds : QCancel(job_id)
    \/ /\ deliv_log # <<>>
       /\ PostResult(ResultOk(deliv_log[1][2]))

SpecMailbox == Init /\ [][NextMailbox]_vars

\* The result slots: store_result and wait_for_result in any interleaving.
NextSlots ==
    \/ Tick(MaxQueueTicks)
    \/ \E job_id \in QueueJobIds : \E payload \in BodiesFor(job_id) : PostResult(payload)
    \/ \E t \in Workers, job_id \in QueueJobIds, timeout_sec \in QueueTimeouts :
            QWaitForResult(t, job_id, timeout_sec)
    \/ \E t \in Workers : WaitForResultStep(t)
    \/ \E t \in Workers : QReturn(t)

SpecSlots == Init /\ [][NextSlots]_vars

\* ------------------------------------------ two plugins and an agent

\* The bridge with two plugins: "studio", whose /poll worker w1 finds its
\* mailbox empty for the whole run, and "other", whose worker w2 serves the
\* roblox_list_services calls the agent makes for it.
OtherArguments == Dict({<<"client_id", JStr("other")>>})
NextTraffic ==
    \/ Tick(MaxQueueTicks)
    \/ ReadLine("roblox_list_services", OtherArguments)
    \/ Enqueue
    \/ WaitForResultStep(STDIO)
    \/ CallToolFinish
    \/ Ping("other")
    \/ PollBegin("w1", "")
    \/ PollBegin("w2", "other")
    \/ \E w \in Workers : WaitForJobStep(w)
    \/ \E w \in Workers : PollReply(w)
    \/ \E job_id \in PluginJobIds : PostResult(ResultOk(job_id))

SpecTraffic == InitWake /\ [][NextTraffic]_vars

\* ------------------------------------- the two waits with any timeout

\* Timeouts the callers pass: negative, zero and positive.
WaitTimeouts == {0 - DEFAULT_POLL_TIMEOUT_SEC, 0, DEFAULT_POLL_TIMEOUT_SEC}

\* Two threads call wait_for_job on the mailbox of "studio" and
\* wait_for_result on the slot of job_1, with any of the timeouts, while jobs
\* are enqueued and the result of job_1 is stored.
NextWaits ==
    \/ Tick(MaxQueueTicks)
    \/ QEnqueue(DEFAULT_CLIENT_ID)
    \/ \E t \in Workers, timeout_sec \in WaitTimeouts :
            QWaitForJob(t, DEFAULT_CLIENT_ID, timeout_sec)
    \/ \E t \in Workers, timeout_sec \in WaitTimeouts :
            QWaitForResult(t, JobId(1), timeout_sec)
    \/ \E t \in Workers : WaitForJobStep(t)
    \/ \E t \in Workers : WaitForResultStep(t)
    \/ \E t \in Workers : PollReply(t)
    \/ \E t \in Workers : QReturn(t)
    \/ PostResult(ResultOk(JobId(1)))

SpecWaits == Init /\ [][NextWaits]_vars

\* ------------------------------------- cancel_job on arbitrary mailboxes

\* Tools of the jobs the callers put: two jobs with one id differ in their type.
QueueTools == {"roblox_list_services", "roblox_undo"}

\* A caller calls enqueue(client_id, job) with a job of its own making: the
\* JobQueue takes any job, and an id may be one that is pending already.
QPut(client_id, name, job_id) ==
    /\ LockFree
    /\ Len(enq_log) < MaxJobs + 1
    /\ pending' = enqueue(pending, client_id, _build_job(name, EmptyDict, job_id, now))
    /\ wt' = notify_all(wt)
    /\ enq_log' = Append(enq_log, <<client_id, job_id>>)
    /\ UNCHANGED << now, poll_timeout_sec, job_timeout_sec, results, last_seen,
                    next_id, d, nlines, stdout, reply, deliv_log, marked_at,
                    stored, post_reply, cancelled >>

\* enqueue, cancel_job and a /poll of "studio" that returns at once, in any
\* interleaving.
NextCancel ==
    \/ \E c \in QueueClients, name \in QueueTools, job_id \in QueueJobIds :
            QPut(c, name, job_id)
    \/ \E job_id \in QueueJobIds : QCancel(job_id)
    \/ QWaitForJob("w1", DEFAULT_CLIENT_ID, 0)
    \/ WaitForJobStep("w1")
    \/ PollReply("w1")

SpecCancel == Init /\ [][NextCancel]_vars

\* ------------------------------------ the bridge on arbitrary input

\* The params of the tools/call messages: absent name and arguments, each tool
\* path with well-typed arguments, and each wrongly-typed part in turn.
CallParams ==
    {JDict(Dict(kvs)) : kvs \in
        { {},
          {<<"name", JStr(STATUS_TOOL)>>},
          {<<"name", JStr("roblox_list_services")>>, <<"arguments", JDict(EmptyDict)>>},
          {<<"name", JStr("roblox_nonsense")>>},
          {<<"name", JList(<< JStr("a") >>)>>},
          {<<"name", JStr(STATUS_TOOL)>>, <<"arguments", JStr("x")>>},
          {<<"name", JStr("roblox_list_services")>>, <<"arguments", JStr("x")>>},
          {<<"name", JStr("roblox_list_services")>>,
           <<"arguments", JDict(Dict({<<"client_id", JList(<< JStr("a") >>)>>}))>>} }}
    \cup {JList(<< JFloat(1) >>)}

\* Messages: with no method, with each method the bridge knows, with one it
\* does not know, with a method that is no string, and tools/call with and
\* without params.
Messages ==
    {EmptyDict}
    \cup {Dict({<<"method", m>>}) :
            m \in {JStr("initialize"), JStr("notifications/initialized"),
                   JStr("tools/list"), JStr("tools/call"), JStr("other"),
                   JList(<< JStr("x") >>)}}
    \cup {Dict({<<"method", JStr("tools/call")>>, <<"params", p>>}) : p \in CallParams}

\* The lines stdin can hold next: requests numbered by their line, the same
\* messages without an id, and lines that are no JSON object.
StdinLines ==
    {LineBlank, LineNotJson, LineJson(JList(<< JFloat(1) >>)),
     LineJson(JStr("xx")), LineJson(JStr("a method")), LineJson(JNull),
     LineJson(JBool(TRUE)), LineJson(JFloat(5))}
    \cup {LineObject(msg_id, msg) : msg_id \in {NO_ID, nlines + 1}, msg \in Messages}

\* The requests the plugin, or anything else on the port, can POST: every kind
\* of body on /result, with the ids of the jobs minted so far, and another path.
PostBodies ==
    {RawNotUtf8, RawNotJson, RawJson(JList(<< JFloat(1) >>)), RawJson(JNull),
     RawObject(EmptyDict),
     RawObject(Dict({<<"job_id", JStr("")>>})),
     RawObject(Dict({<<"job_id", JList(<< JStr("a") >>)>>}))}
    \cup {RawObject(ResultOk(JobId(n))) : n \in 1..next_id}
PostRequests ==
    {<<"/result", body>> : body \in PostBodies} \cup {<<"/other", RawObject(EmptyDict)>>}

\* The bridge with anything on stdin and anything posted, until an exception
\* ends the process.  The plugin pings and answers at once, so the clock stands
\* still.
NextStdio ==
    \/ Alive /\ \E line \in StdinLines : ReadAnyLine(line)
    \/ Alive /\ Enqueue
    \/ Alive /\ WaitForResultStep(STDIO)
    \/ Alive /\ CallToolFinish
    \/ Alive /\ Ping("")
    \/ Alive /\ \E request \in PostRequests : Post(request[1], request[2])

SpecStdio == Init /\ [][NextStdio]_vars

\* --------------------------------------------------- every tool by name

\* The names an agent tries: those tools/list gives, the keys of tool_to_job,
\* and names that are neither (a job type, a studio_ twin, an unknown tool).
ProbeNames ==
    {_build_tools[i] : i \in 1..Len(_build_tools)}
    \cup DOMAIN tool_to_job
    \cup {"roblox_nonsense", "list_services", "studio_list_services"}

\* {"jsonrpc": "2.0", "id": msg_id, "method": "tools/list"} on one line.
ToolsListLine(msg_id) == LineObject(msg_id, Dict({<<"method", JStr("tools/list")>>}))

\* The bridge with a plugin that polls and answers at once, and an agent that
\* lists the tools and calls them by name.
NextTools ==
    \/ ReadAnyLine(ToolsListLine(nlines + 1))
    \/ \E name \in ProbeNames : ReadLine(name, EmptyDict)
    \/ Enqueue
    \/ WaitForResultStep(STDIO)
    \/ CallToolFinish
    \/ Ping("")
    \/ PollBegin("w1", "")
    \/ WaitForJobStep("w1")
    \/ PollReply("w1")
    \/ \E job_id \in PluginJobIds : PostResult(ResultOk(job_id))

SpecTools == Init /\ [][NextTools]_vars

\* ================================================================= claims

\* The place of a job in the order of enqueue.
EnqPos(job_id) == CHOOSE i \in 1..Len(enq_log) : enq_log[i][2] = job_id

\* The client was marked seen, and less than 15 s ago.
SeenWithinWindow(client_id) ==
    client_id \in DOMAIN marked_at /\ now - marked_at[client_id] < 15

\* The client a call's arguments name: client_id, or "studio" when it is absent
\* or empty.
ResolvedClient(arguments) ==
    IF "client_id" \in DOMAIN arguments /\ arguments["client_id"] # JStr("")
    THEN arguments["client_id"].s
    ELSE "studio"

\* This step ends the wait_for_result of the _call_tool in flight.
StdioWaitEnds ==
    d.pc = "wait" /\ wt[STDIO].st # "done" /\ wt'[STDIO].st = "done"

\* This step is the return of a _call_tool that went through the queue.
CallToolReturns == d.pc = "wait" /\ d'.pc = "read"

ErrorEnvelope(text) ==
    [isError |-> TRUE, content |-> << [type |-> "text", text |-> text] >>]

TimeoutEnvelope ==
    ErrorEnvelope(JStr("Timed out waiting for Studio to respond. "
                       \o "Check that the plugin is running and connected."))

NotConnectedEnvelope ==
    ErrorEnvelope(JStr("Studio is not connected. Make sure the Roblox Studio "
                       \o "plugin is installed and 'Start Bridge Polling' has "
                       \o "been clicked."))

\* ---- C1
\* C1: two jobs enqueued on the same client_id are handed to polls of that
\* client in the order of their enqueue, under every interleaving of enqueue,
\* wait_for_job, /result and cancel_job: every delivery goes to the client the
\* job was enqueued for, deliveries of one client follow the enqueue order, and
\* no job is delivered while an older job of its mailbox is still pending.
C1_MailboxFifo ==
    /\ \A i \in 1..Len(deliv_log) :
          enq_log[EnqPos(deliv_log[i][2])][1] = deliv_log[i][1]
    /\ \A i, j \in 1..Len(deliv_log) :
          (i < j /\ deliv_log[i][1] = deliv_log[j][1])
              => EnqPos(deliv_log[i][2]) < EnqPos(deliv_log[j][2])
    /\ \A i \in 1..Len(deliv_log), m \in 1..Len(pending) :
          pending[m].client = deliv_log[i][1] =>
              \A k \in 1..Len(pending[m].queue) :
                  EnqPos(deliv_log[i][2]) < EnqPos(pending[m].queue[k].job_id)
    /\ \A m \in 1..Len(pending) : \A k, l \in 1..Len(pending[m].queue) :
          k < l => EnqPos(pending[m].queue[k].job_id)
                       < EnqPos(pending[m].queue[l].job_id)

\* Two jobs of "studio" were in its mailbox together, and both were delivered.
C1_Witness ==
    /\ Len(enq_log) >= 2
    /\ enq_log[1] = <<"studio", JobId(1)>>
    /\ enq_log[2] = <<"studio", JobId(2)>>
    /\ Len(deliv_log) >= 2
    /\ deliv_log[1] = <<"studio", JobId(1), 2>>
    /\ deliv_log[2][2] = JobId(2)

\* ---- C2
\* C2: when the wait of a _call_tool ends and a result with the job's id and
\* ok = true has been stored, the wait returns that result, and _call_tool then
\* answers with a success envelope (no isError) whose one text item is the
\* two-space JSON dump of the result's inner "result".
C2_SuccessEnvelope ==
    [][ /\ ( /\ StdioWaitEnds
             /\ d.job.job_id \in DOMAIN stored
             /\ Get(stored[d.job.job_id].body, "ok") = JBool(TRUE) )
           => /\ wt'[STDIO].has
              /\ wt'[STDIO].ret = stored[d.job.job_id].body
        /\ ( /\ CallToolReturns
             /\ wt[STDIO].has
             /\ Get(wt[STDIO].ret, "ok") = JBool(TRUE) )
           => reply' =
                [jsonrpc |-> "2.0", id |-> d.msg_id,
                 result |-> [content |-> <<
                    [type |-> "text",
                     text |-> JStr(JsonDumps(Get(wt[STDIO].ret, "result"), 2))] >>]]
      ]_vars

\* The call has returned the dump of {"services": ["Workspace", "Lighting"]}.
C2_Witness ==
    /\ d.pc = "read"
    /\ stdout = <<1>>
    /\ reply.result =
         [content |-> <<
            [type |-> "text",
             text |-> JStr("{\n  \"services\": [\n    \"Workspace\",\n"
                           \o "    \"Lighting\"\n  ]\n}")] >>]

\* ---- C3
\* C3 (as amended): the wait of a _call_tool returns nothing exactly when no
\* result with the job's id is stored at the pass that ends it, which then runs
\* at or after the deadline; _call_tool then answers with exactly the timeout
\* envelope, and from its return on no mailbox holds a job with that id: the
\* only job a mailbox ever holds is the one of the call in flight.
C3_TimeoutEnvelope ==
    [][ /\ StdioWaitEnds
           => /\ wt'[STDIO].has <=> d.job.job_id \in DOMAIN stored
              /\ ~wt'[STDIO].has => now >= wt[STDIO].deadline
        /\ (CallToolReturns /\ ~wt[STDIO].has)
           => /\ reply' = [jsonrpc |-> "2.0", id |-> d.msg_id,
                           result |-> TimeoutEnvelope]
              /\ d.job.job_id \notin PendingIds(pending')
        /\ \A job_id \in PendingIds(pending') :
              d'.pc = "wait" /\ d'.job.job_id = job_id
      ]_vars

\* C3 as stated: whenever no result with the job's id arrived within
\* job_timeout of the wait's start, the wait returns nothing and _call_tool
\* answers with the timeout envelope.
C3_AsStated ==
    [][ /\ ( /\ StdioWaitEnds
             /\ \/ d.job.job_id \notin DOMAIN stored
                \/ stored[d.job.job_id].late )
           => ~wt'[STDIO].has
        /\ (CallToolReturns /\ ~wt[STDIO].has)
           => /\ reply' = [jsonrpc |-> "2.0", id |-> d.msg_id,
                           result |-> TimeoutEnvelope]
              /\ d.job.job_id \notin PendingIds(pending')
      ]_vars

\* A call whose job no poll ever took has timed out, and the mailbox is empty.
C3_Witness ==
    /\ d.pc = "read"
    /\ reply.result = TimeoutEnvelope
    /\ Len(enq_log) = 1
    /\ deliv_log = <<>>
    /\ pending = << [client |-> "studio", queue |-> <<>>] >>

\* ---- C4
\* C4: a wait_for_result(id, t) that returns after store_result(id, r), with no
\* other wait_for_result(id) having returned in between, returns the r stored
\* last and removes the slot; a wait_for_result(id) with no store_result(id)
\* since the last one returned never finds a result: it returns nothing.
C4_ResultOnce ==
    [][ \A t \in Workers :
          /\ ( /\ wt[t].op = "wait_for_result"
               /\ wt[t].st # "done"
               /\ wt'[t].st = "done" )
             => IF wt[t].key \in DOMAIN stored
                THEN /\ wt'[t].has
                     /\ wt'[t].ret = stored[wt[t].key].body
                     /\ wt[t].key \notin DOMAIN results'
                ELSE /\ ~wt'[t].has
                     /\ wt'[t].ret = JNull
                     /\ now >= wt[t].deadline
          /\ ( /\ wt[t].op = "wait_for_result"
               /\ wt[t].st = "run"
               /\ wt'[t].st = "sleep" )
             => wt[t].key \notin DOMAIN stored
      ]_vars

\* One wait on job_1 has returned the stored body and another has returned
\* nothing; the slot is gone.
C4_Witness ==
    /\ wt["w1"].op = "wait_for_result" /\ wt["w1"].st = "done"
    /\ wt["w1"].key = JobId(1) /\ wt["w1"].has
    /\ Get(wt["w1"].ret, "result") = PAYLOAD_SERVICES
    /\ wt["w2"].op = "wait_for_result" /\ wt["w2"].st = "done"
    /\ wt["w2"].key = JobId(1) /\ ~wt["w2"].has
    /\ wt["w2"].deadline > wt["w1"].deadline
    /\ JobId(1) \notin DOMAIN results

\* ---- C5
\* C5: is_connected(c) with the default max_age is true exactly when c was
\* marked seen (by a /ping or a /poll) and less than 15 s have passed since
\* the latest mark; it is false for a client never seen and after 15 s or more.
C5_ConnectedIffRecent ==
    \A c \in {"studio", "other"} :
        is_connected(last_seen, c, MAX_AGE, now) <=> SeenWithinWindow(c)

\* "studio" was seen exactly 15 s ago, and is not connected.
C5_Witness ==
    /\ "studio" \in DOMAIN marked_at
    /\ now - marked_at["studio"] = 15
    /\ ~is_connected(last_seen, "studio", MAX_AGE, now)

\* ---- C6
\* C6: a tools/call for a tool other than studio_get_connection_status whose
\* resolved client is not connected is answered with the "Studio is not
\* connected" error envelope, at once, and leaves the JobQueue as it was: no
\* job is built or enqueued and no result slot or last_seen entry changes.
C6_NotConnected ==
    [][ \A name \in CallNames, arguments \in CallArguments :
          ( /\ ReadLine(name, arguments)
            /\ name # "studio_get_connection_status"
            /\ ~SeenWithinWindow(ResolvedClient(arguments)) )
          => /\ reply' = [jsonrpc |-> "2.0", id |-> nlines + 1,
                          result |-> NotConnectedEnvelope]
             /\ stdout' = Append(stdout, nlines + 1)
             /\ d'.pc = "read"
             /\ UNCHANGED << pending, results, last_seen, enq_log, next_id, wt >>
      ]_vars

\* "studio" was seen 15 s ago or more, and the call just read was refused.
C6_Witness ==
    /\ "studio" \in DOMAIN marked_at
    /\ now - marked_at["studio"] >= 15
    /\ nlines = 1
    /\ stdout = <<1>>
    /\ d.pc = "read"
    /\ reply.result = NotConnectedEnvelope
    /\ enq_log = <<>>

\* ---- C7
\* C7: a tools/call whose name is not in the tool catalog, made while the
\* resolved client is connected, is answered with the error envelope
\* "Unknown tool: <name>", and no job is built or enqueued.
C7_UnknownTool ==
    [][ \A name \in CallNames, arguments \in CallArguments :
          ( /\ ReadLine(name, arguments)
            /\ SeenWithinWindow(ResolvedClient(arguments))
            /\ name \notin {_build_tools[i] : i \in 1..Len(_build_tools)} )
          => /\ reply' = [jsonrpc |-> "2.0", id |-> nlines + 1,
                          result |-> ErrorEnvelope(JStr("Unknown tool: " \o name))]
             /\ d'.pc = "read"
             /\ UNCHANGED << pending, results, enq_log, next_id, wt >>
      ]_vars

\* A call of roblox_nonsense was answered while "studio" was connected.
C7_Witness ==
    /\ SeenWithinWindow("studio")
    /\ stdout = <<1>>
    /\ d.pc = "read"
    /\ reply.result = ErrorEnvelope(JStr("Unknown tool: roblox_nonsense"))
    /\ enq_log = <<>>

\* ---- C8
\* C8 (as amended): when the result consumed for a job has ok = false,
\* _call_tool answers with an error envelope (isError true) whose text is the
\* result's "error" when that is present and truthy, and the literal
\* "Studio error" when it is absent, null or empty; never a success envelope.
C8_StudioError ==
    [][ ( /\ CallToolReturns
          /\ wt[STDIO].has
          /\ Get(wt[STDIO].ret, "ok") = JBool(FALSE) )
        => reply' =
             [jsonrpc |-> "2.0", id |-> d.msg_id,
              result |->
                [isError |-> TRUE,
                 content |-> <<
                   [type |-> "text",
                    text |-> IF /\ "error" \in DOMAIN wt[STDIO].ret
                                /\ Truthy(wt[STDIO].ret["error"])
                             THEN wt[STDIO].ret["error"]
                             ELSE JStr("Studio error")] >>]]
      ]_vars

\* C8 as stated: the text is the result's "error" whenever the result has one,
\* and "Studio error" only when it has none.
C8_AsStated ==
    [][ ( /\ CallToolReturns
          /\ wt[STDIO].has
          /\ Get(wt[STDIO].ret, "ok") = JBool(FALSE) )
        => reply' =
             [jsonrpc |-> "2.0", id |-> d.msg_id,
              result |->
                [isError |-> TRUE,
                 content |-> <<
                   [type |-> "text",
                    text |-> IF "error" \in DOMAIN wt[STDIO].ret
                             THEN wt[STDIO].ret["error"]
                             ELSE JStr("Studio error")] >>]]
      ]_vars

\* The call has consumed a failed result and answered "Studio error".
C8_Witness ==
    /\ d.pc = "read"
    /\ stdout = <<1>>
    /\ deliv_log # <<>>
    /\ reply.result = ErrorEnvelope(JStr("Studio error"))

\* ---- C9
\* C9: studio_get_connection_status is answered locally, connected or not: the
\* response is written in the step that reads the call and is no error
\* envelope, no job is built or enqueued, no thread starts or ends a wait, and
\* the mailboxes, the result slots and last_seen stay as they were.
C9_StatusIsLocal ==
    [][ \A arguments \in CallArguments :
          ReadLine("studio_get_connection_status", arguments)
          => /\ UNCHANGED << pending, results, last_seen, wt, enq_log, next_id >>
             /\ d'.pc = "read"
             /\ stdout' = Append(stdout, nlines + 1)
             /\ reply'.id = nlines + 1
             /\ "isError" \notin DOMAIN reply'.result
      ]_vars

\* The status of "studio", last seen 15 s ago, was reported: not connected.
C9_Witness ==
    /\ d.pc = "read"
    /\ stdout # <<>>
    /\ reply.result =
         [content |-> <<
            [type |-> "text",
             text |-> JStr("{\n  \"connected\": false,\n"
                           \o "  \"client_id\": \"studio\",\n"
                           \o "  \"last_seen_seconds\": 15.0\n}")] >>]

\* ---- C10
\* The job a worker holds, popped by its wait_for_job, is the job of the call
\* in flight.
HoldsJobOfCall(w) ==
    /\ wt[w].op = "wait_for_job" /\ wt[w].st = "done" /\ wt[w].has
    /\ d.pc = "wait"
    /\ wt[w].ret.job_id = d.job.job_id

\* C10 (as amended): for a job of type run_code or run_script_in_play_mode
\* whose call has no "code", or an empty one, the job delivered on /poll has
\* args.code equal to arguments.script when that is present and not empty, and
\* otherwise to arguments.source (null when there is none), and its other args
\* are the call's arguments; with a non-empty "code", and for every other job
\* type, the args are the call's arguments as they are: no "code" is added.
C10_CodeAlias ==
    \A w \in Workers : HoldsJobOfCall(w) =>
        LET args == wt[w].ret.args
            arguments == d.arguments
            NonEmpty(k) == k \in DOMAIN arguments /\ arguments[k] # JStr("")
        IN IF /\ wt[w].ret.type \in {"run_code", "run_script_in_play_mode"}
              /\ ~NonEmpty("code")
           THEN /\ DOMAIN args = DOMAIN arguments \cup {"code"}
                /\ \A k \in DOMAIN arguments \ {"code"} : args[k] = arguments[k]
                /\ args["code"] =
                     IF NonEmpty("script") THEN arguments["script"]
                     ELSE IF "source" \in DOMAIN arguments THEN arguments["source"]
                     ELSE JNull
           ELSE args = arguments

\* C10 as stated: with no "code" in the arguments, args.code is
\* arguments.script whenever "script" is present, and arguments.source otherwise.
C10_AsStated ==
    \A w \in Workers : HoldsJobOfCall(w) =>
        LET args == wt[w].ret.args
            arguments == d.arguments
        IN IF wt[w].ret.type \in {"run_code", "run_script_in_play_mode"}
           THEN "code" \notin DOMAIN arguments =>
                  args["code"] =
                     IF "script" \in DOMAIN arguments THEN arguments["script"]
                     ELSE IF "source" \in DOMAIN arguments THEN arguments["source"]
                     ELSE JNull
           ELSE "code" \in DOMAIN args <=> "code" \in DOMAIN arguments

\* A poll holds the run_code job of a call with script = "print(1)" and no
\* code: its args.code is "print(1)".
C10_Witness ==
    /\ HoldsJobOfCall("w1")
    /\ d.arguments = Dict({<<"script", JStr("print(1)")>>,
                           <<"client_id", JStr("studio")>>})
    /\ wt["w1"].ret.type = "run_code"
    /\ wt["w1"].ret.args["code"] = JStr("print(1)")

\* ---- C11
\* C11 (as amended): the args of the job a poll is handed have the keys of the
\* call's arguments (and "code", for the alias) with the values of the call;
\* a "code" that is present and not empty is handed on unchanged, and the args
\* differ from the arguments only for a run_code or run_script_in_play_mode job
\* whose call has no "code" or an empty one.
C11_ArgsVerbatim ==
    \A w \in Workers : HoldsJobOfCall(w) =>
        LET args == wt[w].ret.args
            arguments == d.arguments
        IN /\ DOMAIN args \ {"code"} = DOMAIN arguments \ {"code"}
           /\ \A k \in DOMAIN arguments \ {"code"} : args[k] = arguments[k]
           /\ Truthy(Get(arguments, "code")) => args = arguments
           /\ args # arguments =>
                /\ wt[w].ret.type \in CODE_JOB_TYPES
                /\ ~Truthy(Get(arguments, "code"))

\* C11 as stated: a "code" that is present in the call, whatever its value, is
\* the "code" of the args, and the args differ from the arguments only when
\* "code" is absent.
C11_AsStated ==
    \A w \in Workers : HoldsJobOfCall(w) =>
        LET args == wt[w].ret.args
            arguments == d.arguments
        IN /\ \A k \in DOMAIN arguments \ {"code"} : args[k] = arguments[k]
           /\ "code" \in DOMAIN arguments => args = arguments

\* A poll holds the run_code job of a call with code = "print(0)" and
\* script = "print(1)": its args are the arguments of the call.
C11_Witness ==
    /\ HoldsJobOfCall("w1")
    /\ wt["w1"].ret.type = "run_code"
    /\ d.arguments = Dict({<<"code", JStr("print(0)")>>,
                           <<"script", JStr("print(1)")>>})
    /\ wt["w1"].ret.args = d.arguments

\* ---- C12
\* C12: a POST /result whose body is no JSON is answered 400 invalid_json, and
\* one whose JSON body has no job_id is answered 400 missing_job_id, and both
\* leave _results and the dispatcher's wait as they are; every other body is
\* stored and answered 200.
C12_AsStated ==
    [][\A body \in PostBodies : Post("/result", body) =>
          IF body.kind \in {"not_utf8", "not_json"}
          THEN /\ post_reply' = PostReply(400, "invalid_json")
               /\ results' = results
               /\ wt'[STDIO] = wt[STDIO]
          ELSE IF body.kind = "json" \/ ~Truthy(Get(body.value, "job_id"))
          THEN /\ post_reply' = PostReply(400, "missing_job_id")
               /\ results' = results
               /\ wt'[STDIO] = wt[STDIO]
          ELSE /\ post_reply' = PostReply(200, "")
               /\ \E job_id \in DOMAIN results' : results'[job_id] = body.value
      ]_vars

\* A body that is no UTF-8 text was posted while a tools/call waits for its
\* result: no response was written, and the call still waits.
C12_Witness ==
    /\ post_reply = Raised("UnicodeDecodeError")
    /\ d.pc = "wait"
    /\ wt[STDIO].st = "sleep"
    /\ results = NoResults

\* ---- C13
\* C13: every key of _results is the id of a job _build_job minted: a result
\* uploaded under any other job_id occupies no slot.
C13_AsStated ==
    DOMAIN results \subseteq {JobId(n) : n \in 1..next_id}

\* A result was uploaded under "job_bogus", an id no job ever had: it was
\* answered 200 and sits in _results.
C13_Witness ==
    /\ BOGUS_JOB_ID \notin {JobId(n) : n \in 1..next_id}
    /\ BOGUS_JOB_ID \in DOMAIN results
    /\ post_reply = PostReply(200, "")

\* ---- C14
\* C14: a slot of _results is filled at most once: an upload for a job_id whose
\* slot is filled leaves the stored result as it is, and an upload for a job_id
\* whose result a wait_for_result has taken does not fill the slot again.
C14_AsStated ==
    [][\A job_id \in QueueJobIds : \A payload \in BodiesFor(job_id) :
          PostResult(payload) =>
             /\ job_id \in DOMAIN results => results'[job_id] = results[job_id]
             /\ (\E t \in Workers : /\ wt[t].op = "wait_for_result"
                                    /\ wt[t].st = "done"
                                    /\ wt[t].key = job_id
                                    /\ wt[t].has)
                => job_id \notin DOMAIN results'
      ]_vars

\* A wait_for_result has taken the result of job_1 (ok = true), and the slot of
\* job_1 is filled again, with another body.
C14_Witness ==
    /\ wt["w1"].op = "wait_for_result" /\ wt["w1"].st = "done"
    /\ wt["w1"].key = JobId(1) /\ wt["w1"].ret = ResultOk(JobId(1))
    /\ JobId(1) \in DOMAIN results
    /\ results[JobId(1)] = ResultFailed(JobId(1))

\* ---- C15
\* C15: a message without an id is a notification: reading it writes nothing
\* to stdout, whatever its method, and neither does the end of a tools/call
\* that came without an id.
C15_AsStated ==
    [][ /\ \A line \in StdinLines :
              (line.kind = "object" /\ line.id = NO_ID /\ ReadAnyLine(line))
                 => stdout' = stdout
        /\ (d.pc \in {"enqueue", "wait"} /\ d.msg_id = NO_ID) => stdout' = stdout
      ]_vars

\* The first line was {"method": "tools/list"}, with no id: the list of tools
\* was written as a response whose id is null.
C15_Witness ==
    /\ nlines = 1
    /\ stdout = << NO_ID >>
    /\ reply = Response(NO_ID, [tools |-> _build_tools])

\* ---- C16
\* C16: no line of stdin and no HTTP request ends the stdio loop: run is
\* always at a line, or inside the tools/call of one.
C16_AsStated ==
    d.pc \in {"read", "line", "enqueue", "wait"}

\* The loop has ended on its first line with an AttributeError: the line was a
\* JSON string holding "method", or a tools/call whose params or arguments
\* are no object.  Nothing was written.
C16_Witness ==
    /\ ~Alive
    /\ nlines = 1
    /\ d.name = "AttributeError"
    /\ stdout = <<>>

\* ---- C18
\* C18: a job for which the cancel_job of a timed-out tools/call returned True
\* is in no mailbox, and no /poll has popped it or pops it afterwards.
C18_CancelledStaysOut ==
    \A job_id \in cancelled :
        /\ job_id \notin PendingIds(pending)
        /\ \A i \in 1..Len(deliv_log) : deliv_log[i][2] # job_id

\* Two jobs were enqueued for "studio"; the first was cancelled when its call
\* timed out, and the one poll that has popped a job since got the second.
C18_Witness ==
    /\ cancelled = {JobId(1)}
    /\ enq_log = << <<"studio", JobId(1)>>, <<"studio", JobId(2)>> >>
    /\ deliv_log = << <<"studio", JobId(2), 2>> >>

\* ---- C19
\* The first place <<mailbox, index>>, in iteration order, of a pending job
\* with this id.
FirstHit(p, job_id) ==
    LET i == CHOOSE x \in 1..Len(p) :
                /\ \E k \in 1..Len(p[x].queue) : p[x].queue[k].job_id = job_id
                /\ \A y \in 1..(x - 1) :
                      \A k \in 1..Len(p[y].queue) : p[y].queue[k].job_id # job_id
        k == CHOOSE x \in 1..Len(p[i].queue) :
                /\ p[i].queue[x].job_id = job_id
                /\ \A y \in 1..(x - 1) : p[i].queue[y].job_id # job_id
    IN << i, k >>

\* C19: on every mailbox state and every id, cancel_job returns True exactly
\* when a pending job has the id; it then removes the first such job in
\* iteration order and keeps every mailbox, every other job and their order,
\* and otherwise it changes nothing.
C19_CancelFirst ==
    \A job_id \in QueueJobIds :
        LET r == cancel_job(pending, job_id) IN
        IF job_id \notin PendingIds(pending)
        THEN ~r.found /\ r.pending = pending
        ELSE LET h == FirstHit(pending, job_id)
                 old == pending[h[1]].queue
                 new == r.pending[h[1]].queue
             IN /\ r.found
                /\ Len(r.pending) = Len(pending)
                /\ \A i \in 1..Len(pending) :
                      /\ r.pending[i].client = pending[i].client
                      /\ i # h[1] => r.pending[i].queue = pending[i].queue
                /\ Len(new) = Len(old) - 1
                /\ \A k \in 1..Len(new) :
                      new[k] = IF k < h[2] THEN old[k] ELSE old[k + 1]

\* Three jobs were put in the mailbox of "studio", with the ids job_1, job_2 and
\* job_1 again, and none was polled: a cancel_job(job_1) has removed the first
\* and left the other two in their order.
C19_Witness ==
    /\ enq_log = << <<"studio", JobId(1)>>, <<"studio", JobId(2)>>,
                    <<"studio", JobId(1)>> >>
    /\ deliv_log = <<>>
    /\ pending = << [client |-> "studio",
                     queue |-> << _build_job("roblox_list_services", EmptyDict,
                                             JobId(2), now),
                                  _build_job("roblox_undo", EmptyDict,
                                             JobId(1), now) >>] >>

\* ---- C17
\* The last instant of the modelled clock: a deadline after it never comes.
Horizon == MaxTicks * TickSec

C20_WaitsEnd ==
    /\ \A w \in PollWorkers :
          (wt[w].op = "wait_for_job" /\ wt[w].deadline <= Horizon)
              ~> (wt[w].st = "idle")
    /\ (d.pc = "wait" /\ wt[STDIO].deadline <= Horizon) ~> (d.pc = "read")

\* A /poll has returned null at its deadline and been answered, and a
\* tools/call has returned the time-out envelope, with no result ever posted.
C20_Witness ==
    /\ now = Horizon
    /\ d.pc = "read" /\ reply.result = TimeoutEnvelope
    /\ wt["w1"].st = "idle"
    /\ marked_at # NoTimes
    /\ deliv_log = <<>>
    /\ post_reply = NoPostReply

\* ---- C21
\* C21: no wakeup is lost.  A thread asleep in wait_for_job has an empty
\* mailbox, and one asleep in wait_for_result has no result in its slot: every
\* enqueue and every store_result wakes it.  A wait_for_job that returns with a
\* job in its mailbox returns the head of the mailbox, and returns null only at
\* its deadline with the mailbox empty; a wait_for_result that returns with
\* its slot filled returns that result, and returns nothing only at its
\* deadline with the slot empty.
C21_NoLostWakeup ==
    /\ [](\A t \in Threads :
            wt[t].st = "sleep" =>
               IF wt[t].op = "wait_for_job"
               THEN PendingGet(pending, wt[t].key) = <<>>
               ELSE wt[t].key \notin DOMAIN results)
    /\ [][\A t \in Threads :
            (wt[t].st \in {"run", "sleep"} /\ wt'[t].st = "done") =>
               IF wt[t].op = "wait_for_job"
               THEN IF PendingGet(pending, wt[t].key) # <<>>
                    THEN /\ wt'[t].has
                         /\ wt'[t].ret = Head(PendingGet(pending, wt[t].key))
                    ELSE ~wt'[t].has /\ now >= wt[t].deadline
               ELSE IF wt[t].key \in DOMAIN results
                    THEN wt'[t].has /\ wt'[t].ret = results[wt[t].key]
                    ELSE ~wt'[t].has /\ now >= wt[t].deadline
         ]_vars

\* A /poll opened at 0 with a deadline at 10 has returned job_1, which was built
\* at 5, and the tools/call that enqueued it has got the result posted for it.
C21_Witness ==
    /\ wt["w1"].op = "wait_for_job" /\ wt["w1"].st = "done" /\ wt["w1"].has
    /\ wt["w1"].deadline = 2 * DEFAULT_POLL_TIMEOUT_SEC
    /\ wt["w1"].ret.job_id = JobId(1)
    /\ wt["w1"].ret.created_at = TickSec
    /\ wt[STDIO].op = "wait_for_result" /\ wt[STDIO].st = "done" /\ wt[STDIO].has
    /\ wt[STDIO].ret = ResultOk(JobId(1))

\* ---- C22
\* C22: while a /poll is asleep inside wait_for_job, every other operation that
\* takes the lock of the JobQueue can run: /ping, /result, the /poll of another
\* client, and the stdio thread's is_connected, enqueue, wait_for_result and
\* cancel_job.
C22_PollDoesNotBlock ==
    \A w \in PollWorkers :
        (wt[w].op = "wait_for_job" /\ wt[w].st \notin {"run", "done"}) =>
           /\ ENABLED Ping("other")
           /\ ENABLED Post("/result", RawObject(ResultOk(BOGUS_JOB_ID)))
           /\ \A u \in Workers \ {w} :
                 wt[u].st = "idle" => ENABLED PollBegin(u, "other")
           /\ (d.pc = "read" /\ nlines < MaxLines)
                 => ENABLED ReadLine("roblox_list_services", OtherArguments)
           /\ d.pc = "enqueue" => ENABLED Enqueue
           /\ (d.pc = "wait" /\ Runnable(wt[STDIO]))
                 => ENABLED WaitForResultStep(STDIO)
           /\ (d.pc = "wait" /\ wt[STDIO].st = "done") => ENABLED CallToolFinish

\* The /poll of "studio", opened at 0, is asleep until 10 on its empty mailbox;
\* since it was opened the clock has reached 5, "other" has pinged and opened
\* a /poll of its own, and a tools/call has enqueued a job for "other" and
\* sleeps in wait_for_result.
C22_Witness ==
    /\ wt["w1"].op = "wait_for_job" /\ wt["w1"].st = "sleep"
    /\ wt["w1"].key = "studio"
    /\ wt["w1"].deadline = 2 * DEFAULT_POLL_TIMEOUT_SEC
    /\ PendingGet(pending, "studio") = << >>
    /\ now = TickSec
    /\ "other" \in DOMAIN last_seen /\ last_seen["other"] = TickSec
    /\ wt["w2"].op = "wait_for_job" /\ wt["w2"].key = "other"
    /\ d.pc = "wait" /\ d.client_id = "other" /\ d.job.created_at = TickSec
    /\ wt[STDIO].st = "sleep"
    /\ PendingGet(pending, "other") = << d.job >>

\* ---- C23
\* C23: with no client_id in the query string, /ping and /poll mark "studio" as
\* seen and /poll waits on the mailbox of "studio"; with no client_id in its
\* arguments, a tools/call is gated on "studio" having been seen within 15 s,
\* builds its job for "studio" and appends it to the mailbox of "studio", and
\* studio_get_connection_status reports on "studio". So the job of such a call
\* is handed to such a /poll.
C23_StatusPayloads ==
    { JObj(<< <<"connected", JBool(FALSE)>>, <<"client_id", JStr("studio")>> >>) }
    \cup { JObj(<< <<"connected", JBool(age < 15)>>,
                   <<"client_id", JStr("studio")>>,
                   <<"last_seen_seconds", JFloat(age)>> >>) : age \in 0..Horizon }

C23_DefaultStudio ==
    /\ [][ /\ (Ping("") \/ \E w \in PollWorkers : PollBegin(w, ""))
               => /\ DOMAIN last_seen' = {"studio"}
                  /\ last_seen'["studio"] = now
           /\ \A w \in PollWorkers :
                 PollBegin(w, "") => /\ wt'[w].op = "wait_for_job"
                                     /\ wt'[w].key = "studio"
           /\ ReadLine("roblox_list_services", EmptyDict)
               => IF SeenWithinWindow("studio")
                  THEN d'.pc = "enqueue" /\ d'.client_id = "studio"
                  ELSE d'.pc = "read" /\ reply'.result = NotConnectedEnvelope
           /\ ReadLine("studio_get_connection_status", EmptyDict)
               => \E payload \in C23_StatusPayloads :
                     reply'.result = _tool_result(payload)
           /\ Enqueue
               => PendingGet(pending', "studio")
                     = Append(PendingGet(pending, "studio"), d.job)
         ]_vars
    /\ [](\A w \in PollWorkers : HoldsJobOfCall(w) => wt[w].key = "studio")

\* The plugin polled without client_id and holds the job of a call that named
\* no client; before that, the status call reported "studio" as connected.
C23_Witness ==
    /\ HoldsJobOfCall("w1")
    /\ d.arguments = EmptyDict
    /\ wt["w1"].key = "studio"
    /\ DOMAIN last_seen = {"studio"}
    /\ stdout = << 1 >>
    /\ nlines = 2

\* ---- C24
\* C24: the job ids the dispatcher mints are pairwise distinct; a pass of the
\* wait_for_result of a tools/call returns a result exactly when the slot of
\* the job_id minted by that call is filled, the result it returns is the one
\* posted with that job_id, and every slot of another job_id stays as it is.
C24_OwnResult ==
    /\ [](\A i, k \in 1..Len(enq_log) : enq_log[i][2] = enq_log[k][2] => i = k)
    /\ []((d.pc = "wait" /\ wt[STDIO].st = "done" /\ wt[STDIO].has)
             => Get(wt[STDIO].ret, "job_id") = JStr(d.job.job_id))
    /\ [][ WaitForResultStep(STDIO)
             => /\ wt'[STDIO].has <=> d.job.job_id \in DOMAIN results
                /\ wt'[STDIO].has => wt'[STDIO].ret = results[d.job.job_id]
                /\ \A j \in DOMAIN results \ {d.job.job_id} :
                      j \in DOMAIN results' /\ results'[j] = results[j]
         ]_vars

\* The first call timed out and its result came late; the second call has
\* consumed the result of its own job, and the late one is still stored.
C24_Witness ==
    /\ d.pc = "wait" /\ d.job.job_id = JobId(2)
    /\ wt[STDIO].st = "done" /\ wt[STDIO].has
    /\ wt[STDIO].ret = ResultOk(JobId(2))
    /\ DOMAIN results = {JobId(1)}

\* ---- C25
\* C25: when a tools/call that went through the queue returns, its envelope is
\* written and its job is in no mailbox; every job enqueued by a call that has
\* returned stays out of every mailbox; and a /poll is only ever handed the job
\* of the call in flight.
C25_ReturnedJobsGone ==
    /\ [][ CallToolReturns
             => /\ d.job.job_id \notin PendingIds(pending')
                /\ stdout' = Append(stdout, d.msg_id)
                /\ \/ reply'.result = TimeoutEnvelope
                   \/ reply'.result = ErrorEnvelope(JStr("boom"))
                   \/ reply'.result = _tool_result(PAYLOAD_SERVICES)
         ]_vars
    /\ [](\A i \in 1..Len(enq_log) :
             (d.pc = "wait" => i < Len(enq_log))
                => enq_log[i][2] \notin PendingIds(pending))
    /\ [][ \A w \in PollWorkers :
             (WaitForJobStep(w) /\ wt'[w].has)
                => /\ d.pc = "wait"
                   /\ wt'[w].ret.job_id = d.job.job_id
         ]_vars

\* The first call timed out with its job still in the mailbox, the second was
\* answered with the plugin's error; both have returned, a /poll is open, and
\* no job is pending.
C25_Witness ==
    /\ d.pc = "read"
    /\ stdout = << 1, 2 >>
    /\ cancelled = {JobId(1)}
    /\ reply.result = ErrorEnvelope(JStr("boom"))
    /\ wt["w1"].op = "wait_for_job" /\ wt["w1"].st = "sleep"
    /\ PendingIds(pending) = {}

\* ---- C26
\* The wait_for_result of the call of job_n has returned None: the dispatcher
\* has timed out on job_n (and _call_tool has not returned yet).
TimedOutOn(n) ==
    /\ d.pc = "wait" /\ d.job.job_id = JobId(n)
    /\ wt[STDIO].st = "done" /\ ~wt[STDIO].has

\* C26: from the moment the dispatcher has timed out on a job, a POST /result
\* with that job's id is answered 200 and fills the slot of the job, and a
\* filled slot of that job stays filled for the rest of the run: no call
\* consumes it.
C26_LateResultStays ==
    /\ \A n \in 1..MaxLines :
          [](TimedOutOn(n)
               => []((JobId(n) \in DOMAIN results)
                        => [](JobId(n) \in DOMAIN results)))
    /\ [][ \A n \in 1..MaxLines : \A payload \in BodiesFor(JobId(n)) :
             ( /\ PostResult(payload)
               /\ \/ d.pc = "read"
                  \/ d.job.job_id # JobId(n)
                  \/ TimedOutOn(n) )
               => /\ post_reply' = PostReply(200, "")
                  /\ JobId(n) \in DOMAIN results'
                  /\ results'[JobId(n)] = payload
                  /\ UNCHANGED << d, stdout, reply >>
         ]_vars

\* The call of job_1 timed out after the plugin had taken the job; the result
\* was posted after that, and is still stored when the second call has been
\* answered with its own result.
C26_Witness ==
    /\ d.pc = "read"
    /\ stdout = << 1, 2 >>
    /\ Len(deliv_log) = 2 /\ deliv_log[1][2] = JobId(1)
    /\ JobId(1) \in DOMAIN results
    /\ reply.result = _tool_result(PAYLOAD_SERVICES)
    /\ reply.id = 2

\* ---- C27
\* C27: the clock never goes back, and in every step every entry of last_seen
\* stays and does not decrease; a /ping or /poll for c sets last_seen[c] to
\* the current time and leaves the other entries as they are; and no other
\* step changes last_seen.
C27_LastSeenMonotone ==
    [][ /\ now' >= now
        /\ \A c \in DOMAIN last_seen :
              c \in DOMAIN last_seen' /\ last_seen'[c] >= last_seen[c]
        /\ \A c \in DOMAIN last_seen : last_seen[c] <= now
        /\ (Ping("other") \/ PollBegin("w2", "other"))
              => /\ DOMAIN last_seen' = DOMAIN last_seen \cup {"other"}
                 /\ last_seen'["other"] = now
                 /\ \A c \in DOMAIN last_seen \ {"other"} : last_seen'[c] = last_seen[c]
        /\ PollBegin("w1", "")
              => /\ DOMAIN last_seen' = DOMAIN last_seen \cup {"studio"}
                 /\ last_seen'["studio"] = now
                 /\ \A c \in DOMAIN last_seen \ {"studio"} : last_seen'[c] = last_seen[c]
        /\ last_seen' # last_seen
              => Ping("other") \/ PollBegin("w2", "other") \/ PollBegin("w1", "")
      ]_vars

\* "studio" polled at 0 and "other" pinged at 5; since then a call for "other"
\* was enqueued, handed to its /poll and answered.
C27_Witness ==
    /\ DOMAIN last_seen = {"studio", "other"}
    /\ last_seen["studio"] = 0
    /\ last_seen["other"] = TickSec
    /\ now = TickSec
    /\ stdout = << 1 >>
    /\ deliv_log # << >>
    /\ reply.result = _tool_result(PAYLOAD_SERVICES)

\* ---- C28
\* C28: the names in the answer to tools/list are the keys of tool_to_job and
\* studio_get_connection_status; a tools/call of a connected client is taken
\* (answered locally for studio_get_connection_status, its job built for every
\* other name) exactly when its name is one of them, and is answered "Unknown
\* tool" otherwise; and the type of every job built is the name of its tool
\* without the prefix roblox_.
C28_ToolTable ==
    /\ []("tools" \in DOMAIN reply.result
            => {reply.result.tools[i] : i \in 1..Len(reply.result.tools)}
                  = DOMAIN tool_to_job \cup {"studio_get_connection_status"})
    /\ [][ \A name \in ProbeNames :
             (ReadLine(name, EmptyDict) /\ SeenWithinWindow("studio"))
                => IF name \in DOMAIN tool_to_job
                   THEN /\ d'.pc = "enqueue"
                        /\ d'.name = name
                        /\ "roblox_" \o d'.job.type = name
                   ELSE IF name = "studio_get_connection_status"
                   THEN /\ d'.pc = "read"
                        /\ "isError" \notin DOMAIN reply'.result
                   ELSE /\ d'.pc = "read"
                        /\ reply'.result = ErrorEnvelope(JStr("Unknown tool: " \o name))
         ]_vars
    /\ [](\A w \in PollWorkers :
             HoldsJobOfCall(w) => "roblox_" \o wt[w].ret.type = d.name)

\* tools/list was answered, and the plugin holds the job of the call of the
\* last tool listed: its type is get_lighting_effects.
C28_Witness ==
    /\ nlines = 2
    /\ stdout = << 1 >>
    /\ "tools" \in DOMAIN reply.result
    /\ HoldsJobOfCall("w1")
    /\ d.name = "roblox_get_lighting_effects"
    /\ d.name = reply.result.tools[Len(reply.result.tools)]
    /\ wt["w1"].ret.type = "get_lighting_effects"

\* ---- C29
\* Methods the bridge does not know: a string that names none of its four
\* methods, and a value that is no string.
UnknownMethods == {JStr("other"), JList(<< JStr("x") >>)}

\* C29: a request with an id and a method the bridge does not know is answered
\* in the step that reads it, with one line: the JSON-RPC error -32601 "Method
\* not found" under the id of the request; run goes on to the next line, and
\* the mailboxes, the result slots, last_seen and the waits stay as they were.
C29_MethodNotFound ==
    [][ \A method \in UnknownMethods :
          ReadAnyLine(LineObject(nlines + 1, Dict({<<"method", method>>})))
             => /\ reply' = [jsonrpc |-> "2.0", id |-> nlines + 1,
                             error |-> [code |-> -32601,
                                        message |-> "Method not found"]]
                /\ stdout' = Append(stdout, nlines + 1)
                /\ d' = d /\ d.pc = "read"
                /\ UNCHANGED << pending, results, last_seen, wt, next_id, enq_log >>
      ]_vars

\* After a call of roblox_list_services that was answered, the second line
\* asked for an unknown method and got the error under its id, 2.
C29_Witness ==
    /\ nlines = 2
    /\ stdout = << 1, 2 >>
    /\ "error" \in DOMAIN reply
    /\ reply.id = 2
    /\ reply.error.code = -32601
    /\ d.pc = "read"
    /\ Len(enq_log) = 1

\* ---- C30
\* A blank line, a line that is no JSON, and a JSON object without "method",
\* sent with an id or without one.
SkippedLines ==
    {LineBlank, LineNotJson,
     LineObject(NO_ID, EmptyDict), LineObject(nlines + 1, EmptyDict)}

\* C30: a line that is blank, is no JSON, or is a JSON object without "method"
\* is read and dropped: nothing is written to stdout, the mailboxes, the result
\* slots, last_seen and the waits stay as they were, and run is back at reading
\* the next line.
C30_SilentlySkipped ==
    [][ \A line \in SkippedLines :
          ReadAnyLine(line)
             => /\ nlines' = nlines + 1
                /\ d' = d /\ d.pc = "read"
                /\ UNCHANGED << stdout, reply, pending, results, last_seen, wt,
                                next_id, enq_log >>
      ]_vars

\* The first line left no trace on stdout, and the second, a tools/list
\* request, was answered under its id.
C30_Witness ==
    /\ nlines = 2
    /\ stdout = << 2 >>
    /\ reply.id = 2
    /\ "result" \in DOMAIN reply /\ "tools" \in DOMAIN reply.result
    /\ d.pc = "read"
    /\ pending = << >> /\ results = NoResults

\* ---- C31
\* C31: a tools/call of a tool the bridge does not have, for a client that was
\* never seen or was last seen 15 s ago or more, is answered with the "Studio
\* is not connected" envelope and not with "Unknown tool"; for a client seen
\* within 15 s it is answered "Unknown tool: <name>".
C31_GateBeforeLookup ==
    [][ \A arguments \in CallArguments :
          ReadLine("roblox_nonsense", arguments)
             => /\ stdout' = Append(stdout, nlines + 1)
                /\ d'.pc = "read"
                /\ reply'.id = nlines + 1
                /\ reply'.result =
                      IF SeenWithinWindow(ResolvedClient(arguments))
                      THEN ErrorEnvelope(JStr("Unknown tool: roblox_nonsense"))
                      ELSE NotConnectedEnvelope
      ]_vars

\* "studio" was last seen exactly 15 s ago; two calls of the unknown tool have
\* been answered, the second with "Studio is not connected", and no job was
\* ever built.
C31_Witness ==
    /\ "studio" \in DOMAIN marked_at /\ now - marked_at["studio"] = 15
    /\ stdout = << 1, 2 >>
    /\ reply.id = 2
    /\ reply.result = NotConnectedEnvelope
    /\ d.pc = "read"
    /\ next_id = 0

\* ---- C32
\* C32: /ping sets last_seen of its client to the current time and leaves the
\* mailboxes and the result slots as they are; /health, a GET or POST of a path
\* the bridge does not have, and POST /result leave last_seen as it is; so
\* last_seen changes in /ping and /poll steps only, and a client is connected
\* exactly when its latest /ping or /poll is less than 15 s old, whatever it
\* has uploaded since.
C32_OnlyPingAndPollMark ==
    /\ [][ /\ GetNow("/ping", "")
                => /\ "studio" \in DOMAIN last_seen' /\ last_seen'["studio"] = now
                   /\ post_reply' = PostReply(200, "")
                   /\ UNCHANGED << pending, results >>
           /\ GetNow("/health", "")
                => /\ post_reply' = PostReply(200, "")
                   /\ UNCHANGED << last_seen, pending, results, wt >>
           /\ (GetNow("/other", "") \/ Post("/other", RawObject(ResultOk(BOGUS_JOB_ID))))
                => /\ post_reply' = PostReply(404, "not_found")
                   /\ UNCHANGED << last_seen, pending, results, wt >>
           /\ Post("/result", RawObject(ResultOk(BOGUS_JOB_ID)))
                => /\ post_reply' = PostReply(200, "")
                   /\ UNCHANGED << last_seen, pending >>
           /\ last_seen' # last_seen
                => GetNow("/ping", "") \/ \E w \in PollWorkers : PollBegin(w, "")
         ]_vars
    /\ [](is_connected(last_seen, "studio", MAX_AGE, now)
             <=> ("studio" \in DOMAIN marked_at /\ now - marked_at["studio"] < 15))

\* The plugin pinged or polled at 0 and has since only uploaded a result, the
\* last request being answered 200; at 15 the agent's call is answered
\* "Studio is not connected".
C32_Witness ==
    /\ now = 15
    /\ last_seen = [c \in {"studio"} |-> 0]
    /\ BOGUS_JOB_ID \in DOMAIN results
    /\ post_reply = PostReply(200, "")
    /\ stdout = << 1 >>
    /\ reply.result = NotConnectedEnvelope
    /\ ~is_connected(last_seen, "studio", MAX_AGE, now)

\* ---- C33
\* A thread that has come back from wait_for_job with a job.
HoldsJob(t) == wt[t].op = "wait_for_job" /\ wt[t].st = "done" /\ wt[t].has

\* C33: with two /poll threads waiting on any mailboxes, the same or not, no
\* job is popped twice, no two threads hold the same job, and a job that was
\* popped is in no mailbox.
C33_DeliveredOnce ==
    /\ \A i, k \in 1..Len(deliv_log) : deliv_log[i][2] = deliv_log[k][2] => i = k
    /\ \A t, u \in Workers :
          (t # u /\ HoldsJob(t) /\ HoldsJob(u)) => wt[t].ret.job_id # wt[u].ret.job_id
    /\ \A i \in 1..Len(deliv_log) : deliv_log[i][2] \notin PendingIds(pending)

\* Two polls of "studio" were opened at 0; at 5, their deadline, two jobs were
\* enqueued, and each poll has come back with one of them.
C33_Witness ==
    /\ HoldsJob("w1") /\ HoldsJob("w2")
    /\ wt["w1"].key = "studio" /\ wt["w2"].key = "studio"
    /\ wt["w1"].deadline = DEFAULT_POLL_TIMEOUT_SEC
    /\ wt["w2"].deadline = DEFAULT_POLL_TIMEOUT_SEC
    /\ wt["w1"].ret.created_at = TickSec /\ wt["w2"].ret.created_at = TickSec
    /\ wt["w1"].ret.job_id = JobId(1) /\ wt["w2"].ret.job_id = JobId(2)

\* ---- C34
\* C34: every job popped by a /poll was enqueued for the client that /poll
\* asked for, and a pass of wait_for_job for one client leaves the mailbox of
\* the other client as it is.
C34_MailboxesIsolated ==
    /\ [](\A i \in 1..Len(deliv_log) :
             enq_log[EnqPos(deliv_log[i][2])][1] = deliv_log[i][1])
    /\ [](\A w \in Workers :
             HoldsJob(w) => enq_log[EnqPos(wt[w].ret.job_id)][1] = wt[w].key)
    /\ [][ \A w \in Workers : WaitForJobStep(w)
             => \A c \in {"studio", "other"} \ {wt[w].key} :
                   PendingGet(pending', c) = PendingGet(pending, c)
         ]_vars

\* The /poll of "studio", open since 0, went back to sleep on its empty
\* mailbox when a job built at 5 for "other" came in; the /poll of "other"
\* holds that job.
C34_Witness ==
    /\ wt["w1"].op = "wait_for_job" /\ wt["w1"].key = "studio"
    /\ wt["w1"].st = "sleep"
    /\ wt["w1"].deadline = 2 * DEFAULT_POLL_TIMEOUT_SEC
    /\ HoldsJobOfCall("w2") /\ wt["w2"].key = "other"
    /\ d.client_id = "other"
    /\ d.job.created_at = TickSec

\* ---- C35
\* C35: while a tools/call is in _call_tool, run reads no line; the responses
\* on stdout carry the ids of the requests in the order they were read, and
\* every request read before the one in hand has been answered; only the stdio
\* thread waits for a result, and only for the job of the call in hand; and no
\* job but that one is in a mailbox.
C35_OneCallAtATime ==
    /\ d.pc # "read"
          => \A name \in CallNames, arguments \in CallArguments :
                ~ENABLED ReadLine(name, arguments)
    /\ \A i, k \in 1..Len(stdout) : i < k => stdout[i] < stdout[k]
    /\ stdout = [i \in 1..(IF d.pc = "read" THEN nlines ELSE nlines - 1) |-> i]
    /\ \A t \in Threads :
          wt[t].op = "wait_for_result"
             => t = STDIO /\ d.pc = "wait" /\ wt[t].key = d.job.job_id
    /\ PendingIds(pending) \subseteq (IF d.pc = "wait" THEN {d.job.job_id} ELSE {})
    /\ Len(enq_log) - Len(deliv_log) - Cardinality(cancelled) \in {0, 1}

\* The first call was answered; the second is waiting for the result of its
\* job, which is the only job in a mailbox.
C35_Witness ==
    /\ nlines = 2
    /\ stdout = << 1 >>
    /\ d.pc = "wait" /\ d.msg_id = 2
    /\ Len(enq_log) = 2
    /\ wt[STDIO].op = "wait_for_result" /\ wt[STDIO].st = "sleep"
    /\ PendingIds(pending) = {d.job.job_id}

\* ---- C36
\* The envelope of studio_get_connection_status that reports client_id as
\* connected, age seconds after it was last seen.
StatusConnected(client_id, age) ==
    _tool_result(JObj(<< <<"connected", JBool(TRUE)>>,
                         <<"client_id", JStr(client_id)>>,
                         <<"last_seen_seconds", JFloat(age)>> >>))

\* The next line is a call of studio_get_connection_status with these
\* arguments, and its answer says connected.
StatusSaysConnected(arguments) ==
    /\ ReadLine("studio_get_connection_status", arguments)
    /\ \E age \in 0..Horizon :
          reply'.result = StatusConnected(ResolvedClient(arguments), age)

\* The next line is a call of roblox_list_services with these arguments, and
\* it passes the is_connected gate: its job is built.
GatePasses(arguments) ==
    /\ ReadLine("roblox_list_services", arguments)
    /\ d'.pc = "enqueue"

\* C36: whenever run is about to read a line, and for either client, a call of
\* studio_get_connection_status would report connected = true exactly when a
\* call of roblox_list_services for the same client would pass the gate; both
\* say no for a client never seen and for one last seen 15 s ago or more.
C36_StatusAgreesWithGate ==
    (d.pc = "read" /\ nlines < MaxLines) =>
        \A arguments \in CallArguments :
            /\ ENABLED StatusSaysConnected(arguments) <=> ENABLED GatePasses(arguments)
            /\ ENABLED GatePasses(arguments)
                  <=> SeenWithinWindow(ResolvedClient(arguments))

\* At 10, with "studio" last seen at 0, the status tool reported it connected,
\* 10.0 s after it was last seen, and at the same instant the next call, of
\* roblox_list_services, has passed the gate.
C36_Witness ==
    /\ now = 10
    /\ "studio" \in DOMAIN marked_at /\ marked_at["studio"] = 0
    /\ nlines = 2
    /\ stdout = << 1 >>
    /\ reply.result = StatusConnected("studio", now - marked_at["studio"])
    /\ d.pc = "enqueue" /\ d.client_id = "studio"
    /\ d.job.created_at = now

\* ---- C37
\* C37: with the default poll timeout of 5 s, and a /poll that comes back
\* within a tick of its deadline, the client of an open /poll was last seen
\* less than 5 s and a tick ago and is connected; the status tool reports it connected and a tools/call
\* for it passes the gate; and once a plugin that polls again at once has
\* polled for the first time, it is connected in every state.
C37_ConnectedWhilePolling ==
    /\ \A w \in PollWorkers :
          wt[w].op = "wait_for_job"
             => /\ wt[w].key \in DOMAIN last_seen
                /\ now - last_seen[wt[w].key] < DEFAULT_POLL_TIMEOUT_SEC + TickSec
                /\ is_connected(last_seen, wt[w].key, MAX_AGE, now)
                /\ (d.pc = "read" /\ nlines < MaxLines)
                      => /\ ENABLED StatusSaysConnected(EmptyDict)
                         /\ ENABLED GatePasses(EmptyDict)
    /\ "studio" \in DOMAIN last_seen
          => is_connected(last_seen, "studio", MAX_AGE, now)

\* At 15 the plugin is in its fourth /poll, opened at 15; the status tool last
\* reported it connected 5.0 s after it was seen, at the end of an earlier
\* /poll that was open for its full 5 s.
C37_Witness ==
    /\ now = 15
    /\ wt["w1"].op = "wait_for_job" /\ wt["w1"].st = "sleep"
    /\ wt["w1"].deadline = 15 + DEFAULT_POLL_TIMEOUT_SEC
    /\ last_seen["studio"] = 15
    /\ stdout # << >>
    /\ reply.result = StatusConnected("studio", DEFAULT_POLL_TIMEOUT_SEC)

\* ---- C38
\* C38: every client that has a mailbox, and every client a job was ever
\* enqueued for, has a last_seen entry; the step in which a tools/call gets to
\* build its job is one in which its client is connected; and the job that
\* enqueue appends is the one built in that step, for that client, whose
\* last_seen entry is still less than 15 s older than the job.
C38_EnqueuedForSeen ==
    /\ [](\A m \in 1..Len(pending) : pending[m].client \in DOMAIN last_seen)
    /\ [](\A i \in 1..Len(enq_log) : enq_log[i][1] \in DOMAIN last_seen)
    /\ [][ (d.pc = "read" /\ d'.pc = "enqueue")
             => /\ is_connected(last_seen, d'.client_id, 15, now)
                /\ d'.client_id = ResolvedClient(d'.arguments)
                /\ d'.job.created_at = now
         ]_vars
    /\ [][ Enqueue
             => /\ d.client_id \in DOMAIN last_seen
                /\ d.job.created_at - last_seen[d.client_id] < 15
                /\ PendingGet(pending', d.client_id)
                      = Append(PendingGet(pending, d.client_id), d.job)
                /\ d' = [d EXCEPT !.pc = "wait"]
         ]_vars

\* "other" was seen at 0 and the call for it passed the gate at 0; its job
\* was enqueued at 5, and is in the mailbox of "other".
C38_Witness ==
    /\ now = TickSec
    /\ "other" \in DOMAIN last_seen /\ last_seen["other"] = 0
    /\ d.pc = "wait" /\ d.client_id = "other"
    /\ d.job.created_at = 0
    /\ wt[STDIO].deadline = TickSec + job_timeout_sec
    /\ PendingGet(pending, "other") = << d.job >>

\* ---- C39
\* C39: a pass of wait_for_job that finds its mailbox not empty returns the
\* head of the mailbox, and a pass of wait_for_result that finds its slot
\* filled returns what the slot holds, whatever the deadline: also when it has
\* passed, and when the timeout was zero or negative.  "No job" and "no result"
\* are returned only with the mailbox empty, or the slot not filled, at a pass
\* at or after the deadline.
C39_PredicateBeforeDeadline ==
    [][ \A t \in Workers :
          /\ WaitForJobStep(t)
               => LET queue == PendingGet(pending, wt[t].key) IN
                  IF queue # << >>
                  THEN /\ wt'[t].st = "done" /\ wt'[t].has
                       /\ wt'[t].ret = Head(queue)
                  ELSE /\ ~wt'[t].has
                       /\ wt'[t].st = "done" <=> now >= wt[t].deadline
          /\ WaitForResultStep(t)
               => IF wt[t].key \in DOMAIN results
                  THEN /\ wt'[t].st = "done" /\ wt'[t].has
                       /\ wt'[t].ret = results[wt[t].key]
                  ELSE /\ ~wt'[t].has
                       /\ wt'[t].st = "done" <=> now >= wt[t].deadline
      ]_vars

\* At 5, a wait_for_job called at 0 with timeout -5 has returned a job built at
\* 5, and a wait_for_result called at 0 with timeout 0 has returned the result
\* of job_1.
C39_Witness ==
    /\ now = TickSec
    /\ HoldsJob("w1")
    /\ wt["w1"].deadline = 0 - DEFAULT_POLL_TIMEOUT_SEC
    /\ wt["w1"].ret.created_at = TickSec
    /\ wt["w2"].op = "wait_for_result" /\ wt["w2"].st = "done" /\ wt["w2"].has
    /\ wt["w2"].deadline = 0
    /\ wt["w2"].ret = ResultOk(JobId(1))

====
